---- MODULE Spec2Model ----
(***************************************************************************)
(* A model of the CHIP-8 interpreter of jawline/CHIP-9: the memory and     *)
(* display (src/src/memory.rs), the register file and the opcode handlers  *)
(* (src/src/cpu.rs) and the stepper with its timers and key latch          *)
(* (src/src/machine.rs).                                                   *)
(*                                                                         *)
(* A Rust panic aborts the run.  The model keeps the panic message in the  *)
(* variable panic ("" while the machine runs) and keeps registers and      *)
(* memory as they were at the moment of the panic, so a handler that       *)
(* panics half way through a loop leaves its earlier writes in place.      *)
(***************************************************************************)
EXTENDS Integers, Sequences, FiniteSets, TLC

VARIABLES
    registers,          \* cpu.registers: v, pc, i, stack, stack_idx, delay, sound, keys, wait_for_key
    memory,             \* machine.memory: data, frame_buffer
    clocks_since_delay, \* Machine.clocks_since_delay
    panic,              \* "" while running, else the message of the panic that stopped the run
    overflow_checks,    \* build profile: TRUE = debug (overflow panics), FALSE = release (overflow wraps)
    last,               \* history: what the latest Machine::step did (see StepRecord)
    pending             \* history: the addresses of the calls not yet returned from, innermost first

vars == <<registers, memory, clocks_since_delay, panic, overflow_checks, last, pending>>

(***************************************************************************)
(* Program constants                                                       *)
(***************************************************************************)
INSTRUCTION_SIZE == 2
MEMORY_SIZE == 8192
SCREEN_WIDTH == 64
SCREEN_HEIGHT == 32
SCREEN_SIZE == SCREEN_WIDTH * SCREEN_HEIGHT
CLOCKS_PER_DELAY == 8
\* the stack array: [Wrapping<u8>; 256]
STACK_SIZE == 256
\* addresses from 0x4000 read the glyph table
SPRITE_BASE == 16384
\* Machine::of_bytes loads the program at 0x200
LOAD_OFFSET == 512
\* the lengths of math_op_table and load_op_table
MATH_OP_TABLE_LEN == 9
LOAD_OP_TABLE_LEN == 102

SPRITE_MEM ==
    << 240, 144, 144, 144, 240,   32,  96,  32,  32, 112,
       240,  16, 240, 128, 240,  240,  16, 240,  16, 240,
       144, 144, 240,  16,  16,  240, 128, 240,  16, 240,
       240, 128, 240, 144, 240,  240,  16,  32,  64,  64,
       240, 144, 240, 144, 240,  240, 144, 240,  16, 240,
       240, 144, 240, 144, 144,  224, 144, 224, 144, 224,
       240, 128, 128, 128, 240,  224, 144, 144, 144, 224,
       240, 128, 240, 128, 240,  240, 128, 240, 128, 128 >>

\* the panic messages the code can end with
PANIC_MCALL == "machine code routes are unsupported"
PANIC_INVALID == "invalid"
PANIC_INDEX == "index out of bounds"
PANIC_OVERFLOW == "attempt to subtract with overflow"

(***************************************************************************)
(* Fixed-width arithmetic                                                  *)
(***************************************************************************)
\* Wrapping<u8> and Wrapping<u16>
W8(x) == x % 256
W16(x) == x % 65536

AndBit == [a \in 0..1 |-> [b \in 0..1 |-> IF a = 1 /\ b = 1 THEN 1 ELSE 0]]
OrBit  == [a \in 0..1 |-> [b \in 0..1 |-> IF a = 1 \/ b = 1 THEN 1 ELSE 0]]
XorBit == [a \in 0..1 |-> [b \in 0..1 |-> IF a # b THEN 1 ELSE 0]]

RECURSIVE BitOp(_, _, _, _)
BitOp(f, a, b, n) ==
    IF n = 0 THEN 0
    ELSE f[a % 2][b % 2] + 2 * BitOp(f, a \div 2, b \div 2, n - 1)

\* the operators &, | and ^ on u8 and u16 values
BitAnd(a, b) == BitOp(AndBit, a, b, 16)
BitOr(a, b)  == BitOp(OrBit, a, b, 16)
\* mutant of BitXor: the bits are added instead
BitXor_adds(a, b) == a + b
BitXor(a, b) == BitOp(XorBit, a, b, 16)

(***************************************************************************)
(* Memory (src/src/memory.rs)                                              *)
(***************************************************************************)
\* Memory::new: data and frame buffer all zero
Memory_new ==
    [data |-> [a \in 0..(MEMORY_SIZE - 1) |-> 0],
     frame_buffer |-> [p \in 0..(SCREEN_SIZE - 1) |-> 0]]

Min(a, b) == IF a < b THEN a ELSE b

\* Memory::of_bytes(data, offset): does the copy loop stay inside the array?
Memory_of_bytes_ok(bytes, offset) ==
    \A k \in 0..(Min(Len(bytes), MEMORY_SIZE) - 1) : offset + k < MEMORY_SIZE

Memory_of_bytes(bytes, offset) ==
    [Memory_new EXCEPT !.data =
        [a \in 0..(MEMORY_SIZE - 1) |->
            IF a >= offset /\ a - offset < Min(Len(bytes), MEMORY_SIZE)
            THEN bytes[a - offset + 1] ELSE 0]]

\* Memory::get: the index is in the array it is read from
get_ok(idx) ==
    IF idx < SPRITE_BASE THEN idx < MEMORY_SIZE ELSE idx - SPRITE_BASE < Len(SPRITE_MEM)

get(mem, idx) ==
    IF idx < SPRITE_BASE THEN mem.data[idx] ELSE SPRITE_MEM[idx - SPRITE_BASE + 1]

\* Memory::set: writes go to the data array whatever the address
set_ok(idx) == idx < MEMORY_SIZE

\* mutant of set: the byte lands one address further on
set_next(mem, idx, val) == [mem EXCEPT !.data[(idx + 1) % MEMORY_SIZE] = val]

set(mem, idx, val) == [mem EXCEPT !.data[idx] = val]

\* mutant of from_be: the two bytes are left as they are
from_be_native(x) == x

\* u16::from_be on a little-endian host: the two bytes are swapped
from_be(x) == (x % 256) * 256 + (x \div 256)

get16_ok(idx) == get_ok(idx) /\ get_ok(idx + 1)

get16(mem, idx) ==
    LET first_part == get(mem, idx)
        second_part == get(mem, idx + 1)
        combined == BitOr(first_part, second_part * 256)
    IN from_be(combined)

\* mutant of clear_display: only the top line of the screen is cleared
clear_display_top_line(mem) ==
    [mem EXCEPT !.frame_buffer =
        [p \in 0..(SCREEN_SIZE - 1) |-> IF p < SCREEN_WIDTH THEN 0 ELSE @[p]]]

\* Memory::clear_display
clear_display(mem) ==
    [mem EXCEPT !.frame_buffer = [p \in 0..(SCREEN_SIZE - 1) |-> 0]]

RECURSIVE draw_row_wraps_buffer(_, _, _, _, _, _)
\* mutant of draw_row: a column past the right edge runs on into the next row
\* (the index wraps modulo the whole buffer)
draw_row_wraps_buffer(fb, vf_reg, x0, y, sprite, xoff) ==
    IF xoff >= 8 THEN [frame_buffer |-> fb, vf_reg |-> vf_reg]
    ELSE LET fb_idx == ((y * SCREEN_WIDTH) + x0 + xoff) % SCREEN_SIZE
             xor_value == IF BitAnd(sprite, 2 ^ (7 - xoff)) # 0 THEN 1 ELSE 0
             current_value == fb[fb_idx]
             new_value == BitXor(current_value, xor_value)
             vf == IF current_value = 1 /\ new_value = 0 THEN 1 ELSE vf_reg
         IN draw_row_wraps_buffer([fb EXCEPT ![fb_idx] = new_value], vf, x0, y, sprite, xoff + 1)

RECURSIVE draw_row(_, _, _, _, _, _)
\* the inner loop of Memory::draw_sprite, for xoff in xoff..7, on row y
draw_row(fb, vf_reg, x0, y, sprite, xoff) ==
    IF xoff >= 8 THEN [frame_buffer |-> fb, vf_reg |-> vf_reg]
    ELSE LET x == (x0 + xoff) % SCREEN_WIDTH
             fb_idx == (y * SCREEN_WIDTH) + x
             xor_value == IF BitAnd(sprite, 2 ^ (7 - xoff)) # 0 THEN 1 ELSE 0
             current_value == fb[fb_idx]
             new_value == BitXor(current_value, xor_value)
             vf == IF current_value = 1 /\ new_value = 0 THEN 1 ELSE vf_reg
         IN draw_row([fb EXCEPT ![fb_idx] = new_value], vf, x0, y, sprite, xoff + 1)

RECURSIVE draw_rows(_, _, _, _, _, _, _)
\* the outer loop of Memory::draw_sprite, for yoff in yoff..n-1; a sprite row
\* that cannot be read panics with the rows drawn so far left in place
draw_rows(mem, vf_reg, x, y0, n, i, yoff) ==
    IF yoff >= n THEN [memory |-> mem, vf_reg |-> vf_reg, panic |-> ""]
    ELSE IF ~get_ok(i + yoff) THEN [memory |-> mem, vf_reg |-> vf_reg, panic |-> PANIC_INDEX]
    ELSE LET y == (y0 + yoff) % SCREEN_HEIGHT
             sprite == get(mem, i + yoff)
             row == draw_row(mem.frame_buffer, vf_reg, x, y, sprite, 0)
         IN draw_rows([mem EXCEPT !.frame_buffer = row.frame_buffer],
                      row.vf_reg, x, y0, n, i, yoff + 1)

\* mutant of Memory_draw_sprite: a lit pixel is never turned off
Memory_draw_sprite_sets(mem, x, y, n, i) ==
    LET drawn == draw_rows(mem, 0, x, y, n, i, 0)
    IN [drawn EXCEPT !.memory.frame_buffer =
            [p \in 0..(SCREEN_SIZE - 1) |->
                IF mem.frame_buffer[p] = 1 THEN 1 ELSE drawn.memory.frame_buffer[p]]]

\* Memory::draw_sprite(x, y, n, i)
Memory_draw_sprite(mem, x, y, n, i) == draw_rows(mem, 0, x, y, n, i, 0)

(***************************************************************************)
(* Registers (src/src/cpu.rs)                                              *)
(***************************************************************************)
\* Option<usize>: None is the empty sequence, Some(r) the sequence <<r>>
None == << >>
Some(r) == << r >>

\* the key state and the key latch as a machine starts: no key down, no wait
keys_new == [k \in 0..15 |-> FALSE]
wait_for_key_new == None

\* Cpu::new
Cpu_new ==
    [pc |-> 0,
     v |-> [r \in 0..15 |-> 0],
     i |-> 0,
     stack |-> [s \in 0..(STACK_SIZE - 1) |-> 0],
     stack_idx |-> 0,
     delay |-> 0,
     sound |-> 0,
     keys |-> keys_new,
     wait_for_key |-> wait_for_key_new]

\* what a handler leaves behind: the registers, the memory, and the panic
\* message ("" when it returned)
Result(regs, mem, msg) == [registers |-> regs, memory |-> mem, panic |-> msg]

\* Registers::inc_pc
inc_pc(regs, val) == [regs EXCEPT !.pc = W16(@ + val)]

\* Registers::stack_push16: the index is checked at the first store, so a full
\* stack panics with nothing written
stack_push16_ok(regs) == regs.stack_idx + 1 < STACK_SIZE

\* mutant of stack_push16: the low byte is stored first
stack_push16_low_first(regs, value) ==
    [regs EXCEPT !.stack[regs.stack_idx] = value % 256,
                 !.stack[regs.stack_idx + 1] = (value \div 256) % 256,
                 !.stack_idx = @ + 2]

stack_push16(regs, value) ==
    LET lower_part == value % 256
        upper_part == (value \div 256) % 256
    IN [regs EXCEPT !.stack[regs.stack_idx] = upper_part,
                    !.stack[regs.stack_idx + 1] = lower_part,
                    !.stack_idx = @ + 2]

\* mutant of stack_pop16: the address returned is the oldest one on the stack
stack_pop16_oldest(regs) ==
    IF regs.stack_idx < 2 /\ overflow_checks
    THEN [registers |-> regs, value |-> 0, panic |-> PANIC_OVERFLOW]
    ELSE LET idx == regs.stack_idx - 2
             popped == [regs EXCEPT !.stack_idx = idx]
         IN IF idx < 0 \/ idx + 1 >= STACK_SIZE
            THEN [registers |-> popped, value |-> 0, panic |-> PANIC_INDEX]
            ELSE [registers |-> popped,
                  value |-> (regs.stack[0] * 256) + regs.stack[1],
                  panic |-> ""]

\* Registers::stack_pop16.  stack_idx -= 2 on a usize below 2 panics in a build
\* with overflow checks; without them it wraps (a negative n here stands for
\* the wrapped 2^64 + n) and the array index that follows panics.
stack_pop16(regs) ==
    IF regs.stack_idx < 2 /\ overflow_checks
    THEN [registers |-> regs, value |-> 0, panic |-> PANIC_OVERFLOW]
    ELSE LET idx == regs.stack_idx - 2
             popped == [regs EXCEPT !.stack_idx = idx]
         IN IF idx < 0 \/ idx + 1 >= STACK_SIZE
            THEN [registers |-> popped, value |-> 0, panic |-> PANIC_INDEX]
            ELSE [registers |-> popped,
                  value |-> regs.stack[idx] * 256 + regs.stack[idx + 1],
                  panic |-> ""]

(***************************************************************************)
(* Operand extraction                                                      *)
(***************************************************************************)
register_from_data(data) == BitAnd(data, 3840) \div 256
register_two_from_data(data) == BitAnd(data, 240) \div 16
immediate_from_data(data) == BitAnd(data, 255)

(***************************************************************************)
(* The opcode handlers (Instruction::*, src/src/cpu.rs).  Each takes the   *)
(* registers, the memory and the low 12 bits of the opcode.                *)
(***************************************************************************)
mcall_display_or_flow(regs, mem, data) ==
    IF data = 224 THEN Result(inc_pc(regs, 2), clear_display(mem), "")
    ELSE IF data = 238
    THEN LET pop == stack_pop16(regs)
         IN IF pop.panic # "" THEN Result(pop.registers, mem, pop.panic)
            ELSE Result([pop.registers EXCEPT !.pc = pop.value], mem, "")
    ELSE Result(regs, mem, PANIC_MCALL)

\* mutant of goto: pc is advanced past the target as after any other opcode
goto_then_advance(regs, mem, data) == Result(inc_pc([regs EXCEPT !.pc = data], 2), mem, "")

goto(regs, mem, data) == Result([regs EXCEPT !.pc = data], mem, "")

\* mutant of call: the return address pushed is the address of the call itself
call_pushes_pc(regs, mem, data) ==
    IF ~stack_push16_ok(regs) THEN Result(regs, mem, PANIC_INDEX)
    ELSE Result([stack_push16(regs, regs.pc) EXCEPT !.pc = data], mem, "")

call(regs, mem, data) ==
    IF ~stack_push16_ok(regs) THEN Result(regs, mem, PANIC_INDEX)
    ELSE Result([stack_push16(regs, regs.pc + INSTRUCTION_SIZE) EXCEPT !.pc = data], mem, "")

reg_equal(regs, mem, data) ==
    LET register == register_from_data(data)
        imm == immediate_from_data(data)
    IN Result(inc_pc(regs, IF regs.v[register] = imm THEN 4 ELSE 2), mem, "")

reg_not_equal(regs, mem, data) ==
    LET register == register_from_data(data)
        imm == immediate_from_data(data)
    IN Result(inc_pc(regs, IF regs.v[register] # imm THEN 4 ELSE 2), mem, "")

two_reg_equal(regs, mem, data) ==
    LET register1 == register_from_data(data)
        register2 == register_two_from_data(data)
    IN Result(inc_pc(regs, IF regs.v[register1] = regs.v[register2] THEN 4 ELSE 2), mem, "")

\* mutant of load_immediate: the immediate is added to the register
load_immediate_adds(regs, mem, data) ==
    LET register == register_from_data(data)
        imm == immediate_from_data(data)
    IN Result(inc_pc([regs EXCEPT !.v[register] = W8(@ + imm)], 2), mem, "")

load_immediate(regs, mem, data) ==
    LET register == register_from_data(data)
        imm == immediate_from_data(data)
    IN Result(inc_pc([regs EXCEPT !.v[register] = imm], 2), mem, "")

\* mutant of add_immediate: the carry of the addition is stored in v[0xF]
add_immediate_sets_flag(regs, mem, data) ==
    LET register == register_from_data(data)
        imm == immediate_from_data(data)
        sum == regs.v[register] + imm
        flagged == [regs EXCEPT !.v[15] = IF sum > 255 THEN 1 ELSE 0]
    IN Result(inc_pc([flagged EXCEPT !.v[register] = W8(sum)], 2), mem, "")

add_immediate(regs, mem, data) ==
    LET register == register_from_data(data)
        imm == immediate_from_data(data)
    IN Result(inc_pc([regs EXCEPT !.v[register] = W8(@ + imm)], 2), mem, "")

\* mutant of two_registers_not_equal: the skip is taken when the registers are equal
two_registers_not_equal_inverted(regs, mem, data) ==
    LET register1 == register_from_data(data)
        register2 == register_two_from_data(data)
    IN Result(inc_pc(regs, IF regs.v[register1] = regs.v[register2] THEN 4 ELSE 2), mem, "")

two_registers_not_equal(regs, mem, data) ==
    LET register1 == register_from_data(data)
        register2 == register_two_from_data(data)
    IN Result(inc_pc(regs, IF regs.v[register1] # regs.v[register2] THEN 4 ELSE 2), mem, "")

set_i(regs, mem, data) == Result(inc_pc([regs EXCEPT !.i = data], 2), mem, "")

jump_immediate_plus_register(regs, mem, data) ==
    Result([regs EXCEPT !.pc = W16(regs.v[0] + data)], mem, "")

\* mutant of masked_random: the random byte is stored without the mask
masked_random_unmasked(regs, mem, data, rval) ==
    LET register == register_from_data(data)
    IN Result(inc_pc([regs EXCEPT !.v[register] = rval], 2), mem, "")

\* rval is the byte the random source yields
masked_random(regs, mem, data, rval) ==
    LET register == register_from_data(data)
        mask == immediate_from_data(data)
    IN Result(inc_pc([regs EXCEPT !.v[register] = BitAnd(rval, mask)], 2), mem, "")

\* Instruction::draw_sprite: v[0xF] is assigned only when Memory::draw_sprite returns
draw_sprite(regs, mem, data) ==
    LET register1 == register_from_data(data)
        register2 == register_two_from_data(data)
        d == BitAnd(data, 15)
        drawn == Memory_draw_sprite(mem, regs.v[register1], regs.v[register2], d, regs.i)
    IN IF drawn.panic # "" THEN Result(regs, drawn.memory, drawn.panic)
       ELSE Result(inc_pc([regs EXCEPT !.v[15] = drawn.vf_reg], 2), drawn.memory, "")

\* mutant of key_op: Ex9E skips the next instruction when key v[x] is down
key_op_skips(regs, mem, data) ==
    LET register1 == register_from_data(data)
    IN Result(inc_pc(regs, IF immediate_from_data(data) = \h9E /\ regs.keys[regs.v[register1]]
                           THEN 4 ELSE 2), mem, "")

key_op(regs, mem, data) == Result(inc_pc(regs, 2), mem, "")

(***************************************************************************)
(* The arithmetic and logic handlers of math_op_table                      *)
(***************************************************************************)
mv_register(regs, mem, data) ==
    LET register1 == register_from_data(data)
        register2 == register_two_from_data(data)
    IN Result(inc_pc([regs EXCEPT !.v[register1] = regs.v[register2]], 2), mem, "")

\* mutant of or_register: the result is stored in the second register
or_register_stores_y(regs, mem, data) ==
    LET register1 == register_from_data(data)
        register2 == register_two_from_data(data)
    IN Result(inc_pc([regs EXCEPT !.v[register2] = BitOr(regs.v[register1], @)], 2), mem, "")

or_register(regs, mem, data) ==
    LET register1 == register_from_data(data)
        register2 == register_two_from_data(data)
    IN Result(inc_pc([regs EXCEPT !.v[register1] = BitOr(@, regs.v[register2])], 2), mem, "")

and_register(regs, mem, data) ==
    LET register1 == register_from_data(data)
        register2 == register_two_from_data(data)
    IN Result(inc_pc([regs EXCEPT !.v[register1] = BitAnd(@, regs.v[register2])], 2), mem, "")

xor_register(regs, mem, data) ==
    LET register1 == register_from_data(data)
        register2 == register_two_from_data(data)
    IN Result(inc_pc([regs EXCEPT !.v[register1] = BitXor(@, regs.v[register2])], 2), mem, "")

\* mutant of add_register: the flag register is left alone
add_register_keeps_flag(regs, mem, data) ==
    LET register1 == register_from_data(data)
        register2 == register_two_from_data(data)
    IN Result(inc_pc([regs EXCEPT !.v[register1] = W8(@ + regs.v[register2])], 2), mem, "")

\* the flag is stored first and the result second, so with register1 = 0xF
\* the result overwrites the flag
add_register(regs, mem, data) ==
    LET register1 == register_from_data(data)
        register2 == register_two_from_data(data)
        result == W8(regs.v[register1] + regs.v[register2])
        flagged == [regs EXCEPT !.v[15] = IF result < regs.v[register1] THEN 1 ELSE 0]
    IN Result(inc_pc([flagged EXCEPT !.v[register1] = result], 2), mem, "")

\* mutant of sub_register: the flag is 1 when there was no borrow
sub_register_not_borrow(regs, mem, data) ==
    LET register1 == register_from_data(data)
        register2 == register_two_from_data(data)
        result == W8(regs.v[register1] - regs.v[register2])
        flagged == [regs EXCEPT !.v[15] = IF result > regs.v[register1] THEN 0 ELSE 1]
    IN Result(inc_pc([flagged EXCEPT !.v[register1] = result], 2), mem, "")

sub_register(regs, mem, data) ==
    LET register1 == register_from_data(data)
        register2 == register_two_from_data(data)
        result == W8(regs.v[register1] - regs.v[register2])
        flagged == [regs EXCEPT !.v[15] = IF result > regs.v[register1] THEN 1 ELSE 0]
    IN Result(inc_pc([flagged EXCEPT !.v[register1] = result], 2), mem, "")

\* mutant of shr_register: v[register2] is shifted into v[register1]
shr_register_from_y(regs, mem, data) ==
    LET register1 == register_from_data(data)
        register2 == register_two_from_data(data)
        flagged == [regs EXCEPT !.v[15] = BitAnd(regs.v[register2], 1)]
    IN Result(inc_pc([flagged EXCEPT !.v[register1] = flagged.v[register2] \div 2], 2), mem, "")

\* the flag is stored first; the shift then reads v[register1] again
shr_register(regs, mem, data) ==
    LET register1 == register_from_data(data)
        flagged == [regs EXCEPT !.v[15] = BitAnd(regs.v[register1], 1)]
    IN Result(inc_pc([flagged EXCEPT !.v[register1] = flagged.v[register1] \div 2], 2), mem, "")

shl_register(regs, mem, data) ==
    LET register1 == register_from_data(data)
        flagged == [regs EXCEPT !.v[15] = BitAnd(regs.v[register1], 128)]
    IN Result(inc_pc([flagged EXCEPT !.v[register1] = W8(flagged.v[register1] * 2)], 2), mem, "")

rev_sub_register(regs, mem, data) ==
    LET register1 == register_from_data(data)
        register2 == register_two_from_data(data)
        result == W8(regs.v[register2] - regs.v[register1])
        flagged == [regs EXCEPT !.v[15] = IF result > regs.v[register2] THEN 1 ELSE 0]
    IN Result(inc_pc([flagged EXCEPT !.v[register1] = result], 2), mem, "")

\* mutant of invalid_op: the opcode is skipped instead of stopping the run
invalid_op_skips(regs, mem, data) == Result(inc_pc(regs, 2), mem, "")

invalid_op(regs, mem, data) == Result(regs, mem, PANIC_INVALID)

(***************************************************************************)
(* The timer, index and block-transfer handlers of load_op_table           *)
(***************************************************************************)
\* mutant of get_delay: reading the delay timer resets it
get_delay_consumes(regs, mem, data) ==
    LET register1 == register_from_data(data)
    IN Result(inc_pc([regs EXCEPT !.v[register1] = regs.delay, !.delay = 0], 2), mem, "")

get_delay(regs, mem, data) ==
    LET register1 == register_from_data(data)
    IN Result(inc_pc([regs EXCEPT !.v[register1] = regs.delay], 2), mem, "")

\* mutant of set_delay: the call stack is emptied as well
set_delay_clears_stack(regs, mem, data) ==
    LET register1 == register_from_data(data)
    IN Result(inc_pc([regs EXCEPT !.delay = regs.v[register1], !.stack_idx = 0], 2), mem, "")

set_delay(regs, mem, data) ==
    LET register1 == register_from_data(data)
    IN Result(inc_pc([regs EXCEPT !.delay = regs.v[register1]], 2), mem, "")

set_sound(regs, mem, data) ==
    LET register1 == register_from_data(data)
    IN Result(inc_pc([regs EXCEPT !.sound = regs.v[register1]], 2), mem, "")

\* Instruction::wait_for_key: the body only advances pc
wait_for_key(regs, mem, data) == Result(inc_pc(regs, 2), mem, "")

\* mutant of add_vx_i: the sum is kept within 12 bits
add_vx_i_masked(regs, mem, data) ==
    LET register1 == register_from_data(data)
    IN Result(inc_pc([regs EXCEPT !.i = (@ + regs.v[register1]) % 4096], 2), mem, "")

add_vx_i(regs, mem, data) ==
    LET register1 == register_from_data(data)
    IN Result(inc_pc([regs EXCEPT !.i = W16(@ + regs.v[register1])], 2), mem, "")

\* mutant of set_i_sprite_addr: v[x] is not reduced to its low nibble
set_i_sprite_addr_unmasked(regs, mem, data) ==
    LET register1 == register_from_data(data)
    IN Result(inc_pc([regs EXCEPT !.i = W16(SPRITE_BASE + regs.v[register1] * 5)], 2), mem, "")

set_i_sprite_addr(regs, mem, data) ==
    LET register1 == register_from_data(data)
    IN Result(inc_pc([regs EXCEPT !.i = SPRITE_BASE + BitAnd(regs.v[register1], 15) * 5], 2),
              mem, "")

\* mutant of bcd_vx: the least significant digit is stored at i
bcd_vx_reversed(regs, mem, data) ==
    LET register1 == register_from_data(data)
        n == regs.v[register1]
    IN IF ~set_ok(W16(regs.i + 2)) \/ ~set_ok(W16(regs.i + 1)) \/ ~set_ok(regs.i)
       THEN Result(regs, mem, PANIC_INDEX)
       ELSE Result(inc_pc([regs EXCEPT !.i = W16(@ + 3)], 2),
                   set(set(set(mem, regs.i, n % 10), regs.i + 1, (n \div 10) % 10),
                       regs.i + 2, n \div 100),
                   "")

\* Instruction::bcd_vx: three stores, least significant digit first; a store
\* outside the data array panics with the earlier stores done
bcd_vx(regs, mem, data) ==
    LET register1 == register_from_data(data)
        tmp0 == regs.v[register1]
        a2 == W16(regs.i + 2)
        tmp1 == tmp0 \div 10
        a1 == W16(regs.i + 1)
        tmp2 == tmp1 \div 10
        a0 == regs.i
    IN IF ~set_ok(a2) THEN Result(regs, mem, PANIC_INDEX)
       ELSE LET m2 == set(mem, a2, tmp0 % 10)
            IN IF ~set_ok(a1) THEN Result(regs, m2, PANIC_INDEX)
               ELSE LET m1 == set(m2, a1, tmp1 % 10)
                    IN IF ~set_ok(a0) THEN Result(regs, m1, PANIC_INDEX)
                       ELSE Result(inc_pc([regs EXCEPT !.i = W16(@ + 3)], 2),
                                   set(m1, a0, tmp2 % 10), "")

RECURSIVE reg_dump_loop(_, _, _, _)
\* the loop of Instruction::reg_dump, for i in k..n-1
reg_dump_loop(regs, mem, k, n) ==
    IF k >= n THEN Result(regs, mem, "")
    ELSE IF ~set_ok(regs.i) THEN Result(regs, mem, PANIC_INDEX)
    ELSE reg_dump_loop([regs EXCEPT !.i = W16(@ + 1)], set(mem, regs.i, regs.v[k]), k + 1, n)

\* mutant of reg_dump: i is left where it was
reg_dump_keeps_i(regs, mem, data) ==
    LET register1 == register_from_data(data)
        r == reg_dump_loop(regs, mem, 0, register1 + 1)
    IN IF r.panic # "" THEN r
       ELSE Result(inc_pc([r.registers EXCEPT !.i = regs.i], 2), r.memory, "")

reg_dump(regs, mem, data) ==
    LET register1 == register_from_data(data)
        r == reg_dump_loop(regs, mem, 0, register1 + 1)
    IN IF r.panic # "" THEN r ELSE Result(inc_pc(r.registers, 2), r.memory, "")

RECURSIVE reg_load_loop(_, _, _, _)
\* the loop of Instruction::reg_load, for i in k..n-1
reg_load_loop(regs, mem, k, n) ==
    IF k >= n THEN Result(regs, mem, "")
    ELSE IF ~get_ok(regs.i) THEN Result(regs, mem, PANIC_INDEX)
    ELSE reg_load_loop([regs EXCEPT !.v[k] = get(mem, regs.i), !.i = W16(@ + 1)], mem, k + 1, n)

\* mutant of reg_load: register x itself is not loaded
reg_load_exclusive(regs, mem, data) ==
    LET register1 == register_from_data(data)
        r == reg_load_loop(regs, mem, 0, register1)
    IN IF r.panic # "" THEN r ELSE Result(inc_pc(r.registers, 2), r.memory, "")

reg_load(regs, mem, data) ==
    LET register1 == register_from_data(data)
        r == reg_load_loop(regs, mem, 0, register1 + 1)
    IN IF r.panic # "" THEN r ELSE Result(inc_pc(r.registers, 2), r.memory, "")

(***************************************************************************)
(* The dispatch tables                                                     *)
(***************************************************************************)
\* Instruction::load_or_store: load_op_table has 0x66 entries, invalid_op
\* wherever load_op_table() assigns no handler
load_or_store(regs, mem, data) ==
    LET opcode_mask == BitAnd(data, 255)
    IN IF opcode_mask >= LOAD_OP_TABLE_LEN THEN Result(regs, mem, PANIC_INDEX)
       ELSE CASE opcode_mask = 7   -> get_delay(regs, mem, data)
              [] opcode_mask = 10  -> wait_for_key(regs, mem, data)
              [] opcode_mask = 21  -> set_delay(regs, mem, data)
              [] opcode_mask = 24  -> set_sound(regs, mem, data)
              [] opcode_mask = 30  -> add_vx_i(regs, mem, data)
              [] opcode_mask = 41  -> set_i_sprite_addr(regs, mem, data)
              [] opcode_mask = 51  -> bcd_vx(regs, mem, data)
              [] opcode_mask = 85  -> reg_dump(regs, mem, data)
              [] opcode_mask = 101 -> reg_load(regs, mem, data)
              [] OTHER -> invalid_op(regs, mem, data)

\* Instruction::math_or_bitop: math_op_table has 9 entries
math_or_bitop(regs, mem, data) ==
    LET math_opcode == BitAnd(data, 15)
    IN IF math_opcode >= MATH_OP_TABLE_LEN THEN Result(regs, mem, PANIC_INDEX)
       ELSE CASE math_opcode = 0 -> mv_register(regs, mem, data)
              [] math_opcode = 1 -> or_register(regs, mem, data)
              [] math_opcode = 2 -> and_register(regs, mem, data)
              [] math_opcode = 3 -> xor_register(regs, mem, data)
              [] math_opcode = 4 -> add_register(regs, mem, data)
              [] math_opcode = 5 -> sub_register(regs, mem, data)
              [] math_opcode = 6 -> shr_register(regs, mem, data)
              [] math_opcode = 7 -> rev_sub_register(regs, mem, data)
              [] math_opcode = 8 -> shl_register(regs, mem, data)

\* main_op_table[op_id].execute
main_op_table(op_id, regs, mem, data, rval) ==
    CASE op_id = 0  -> mcall_display_or_flow(regs, mem, data)
      [] op_id = 1  -> goto(regs, mem, data)
      [] op_id = 2  -> call(regs, mem, data)
      [] op_id = 3  -> reg_equal(regs, mem, data)
      [] op_id = 4  -> reg_not_equal(regs, mem, data)
      [] op_id = 5  -> two_reg_equal(regs, mem, data)
      [] op_id = 6  -> load_immediate(regs, mem, data)
      [] op_id = 7  -> add_immediate(regs, mem, data)
      [] op_id = 8  -> math_or_bitop(regs, mem, data)
      [] op_id = 9  -> two_registers_not_equal(regs, mem, data)
      [] op_id = 10 -> set_i(regs, mem, data)
      [] op_id = 11 -> jump_immediate_plus_register(regs, mem, data)
      [] op_id = 12 -> masked_random(regs, mem, data, rval)
      [] op_id = 13 -> draw_sprite(regs, mem, data)
      [] op_id = 14 -> key_op(regs, mem, data)
      [] op_id = 15 -> load_or_store(regs, mem, data)

\* main_op_table[op_id].to_string, which Cpu::step calls before execute: the
\* two table lookups of math_or_bitop_to_string and load_or_store_to_string
\* index the same tables and panic on the same opcodes
to_string_ok(op_id, data) ==
    /\ op_id = 8 => BitAnd(data, 15) < MATH_OP_TABLE_LEN
    /\ op_id = 15 => BitAnd(data, 255) < LOAD_OP_TABLE_LEN

\* Cpu::step
Cpu_step(regs, mem, rval) ==
    IF ~get16_ok(regs.pc) THEN Result(regs, mem, PANIC_INDEX)
    ELSE LET next_opcode == get16(mem, regs.pc)
             op_id == BitAnd(next_opcode, 61440) \div 4096
         IN IF ~to_string_ok(op_id, BitAnd(next_opcode, 4095))
            THEN Result(regs, mem, PANIC_INDEX)
            ELSE main_op_table(op_id, regs, mem, BitAnd(next_opcode, 4095), rval)

(***************************************************************************)
(* The machine (src/src/machine.rs)                                        *)
(***************************************************************************)
\* Machine::of_bytes
Machine_of_bytes(bytes) ==
    [cpu |-> Cpu_new, memory |-> Memory_of_bytes(bytes, LOAD_OFFSET), clocks_since_delay |-> 0]

\* Machine::sound
Machine_sound(regs) == regs.sound > 0

\* mutant of set_key: the key is written to the latched register but the
\* latch is left set
set_key_keeps_latch(regs, key, state) ==
    LET current == regs.keys[key]
        resolved ==
            IF state /\ ~current /\ regs.wait_for_key # None
            THEN [regs EXCEPT !.v[regs.wait_for_key[1]] = key]
            ELSE regs
    IN [resolved EXCEPT !.keys[key] = state]

\* Machine::set_key(key, state)
set_key(regs, key, state) ==
    LET current == regs.keys[key]
        resolved ==
            IF state /\ ~current /\ regs.wait_for_key # None
            THEN [regs EXCEPT !.v[regs.wait_for_key[1]] = key, !.wait_for_key = None]
            ELSE regs
    IN [resolved EXCEPT !.keys[key] = state]

\* mutant of tick_timers: the timers are decremented without the test for
\* zero, as wrapping bytes
tick_timers_wrapping(regs, clocks) ==
    IF clocks >= CLOCKS_PER_DELAY
    THEN [regs EXCEPT !.sound = W8(@ - 1), !.delay = W8(@ - 1)]
    ELSE regs

\* the timer block at the end of Machine::step
tick_timers(regs, clocks) ==
    IF clocks >= CLOCKS_PER_DELAY
    THEN [regs EXCEPT !.sound = IF @ > 0 THEN @ - 1 ELSE @,
                      !.delay = IF @ > 0 THEN @ - 1 ELSE @]
    ELSE regs

\* mutant of Machine_step: Cpu::step is called whatever the key latch holds
Machine_step_ignores_latch(regs, mem, clocks, rval) ==
    LET stepped == Cpu_step(regs, mem, rval)
    IN IF stepped.panic # ""
       THEN [registers |-> stepped.registers, memory |-> stepped.memory,
             clocks_since_delay |-> clocks, panic |-> stepped.panic]
       ELSE [registers |-> tick_timers(stepped.registers, clocks + 1),
             memory |-> stepped.memory,
             clocks_since_delay |-> clocks + 1, panic |-> ""]

\* Machine::step.  A panic inside Cpu::step leaves the function at once: the
\* counter and the timers are not touched.
Machine_step(regs, mem, clocks, rval) ==
    LET stepped == IF regs.wait_for_key = None THEN Cpu_step(regs, mem, rval)
                   ELSE Result(regs, mem, "")
    IN IF stepped.panic # ""
       THEN [registers |-> stepped.registers, memory |-> stepped.memory,
             clocks_since_delay |-> clocks, panic |-> stepped.panic]
       ELSE [registers |-> tick_timers(stepped.registers, clocks + 1),
             memory |-> stepped.memory,
             clocks_since_delay |-> clocks + 1, panic |-> ""]

(***************************************************************************)
(* Bounds and inputs                                                       *)
(***************************************************************************)
\* Machine::step is called at most MaxSteps times in a run
MaxSteps == 18
\* the host presses and releases the keys 0..MaxKey
MaxKey == 1

\* the bytes of a program given as a sequence of 16-bit opcodes, high byte first
Asm(ops) == [k \in 1..(2 * Len(ops)) |->
                IF k % 2 = 1 THEN ops[(k + 1) \div 2] \div 256 ELSE ops[k \div 2] % 256]

\* a program one byte longer than the memory above LOAD_OFFSET: a jump to 0,
\* then filler
LongProgram ==
    [k \in 1..(MEMORY_SIZE - LOAD_OFFSET + 1) |->
        IF k = 1 THEN \h10 ELSE IF k = 2 THEN 0 ELSE k % 256]

\* the programs loaded
Programs ==
    { Asm(<< \h2004, \h0000, \h00EE >>),                 \* call 4; at 4: return
      Asm(<< \h2004, \h1002, \h2008, \h00EE, \h00EE >>), \* nested calls, then a loop at 2
      Asm(<< \h00EE >>),                                 \* return on an empty stack
      Asm(<< \h00E0, \h0123 >>),                         \* clear display; machine code call
      Asm(<< \h6107, \h8019 >>),                         \* 8xy9
      Asm(<< \h6107, \hF134 >>),                         \* Fx34: in the table, no handler
      Asm(<< \h6107, \hF1FF >>),                         \* FxFF: beyond the table
      Asm(<< \h600F, \hF029, \hF565 >>),                 \* load v0..v5 from the last glyph
      Asm(<< \h600F, \hF029, \hF055 >>),                 \* dump v0 at the last glyph
      Asm(<< \h600F, \hF029, \hD005, \hD006 >>),         \* draw 5 rows, then 6, of the last glyph
      Asm(<< \hA300, \h6192, \hF133, \hF155, \hF165 >>), \* bcd, dump and load at 0x300
      Asm(<< \hF30A, \h6001, \h1004 >>),                 \* wait for a key, then v0 = 1, then loop
      Asm(<< \h6003, \hF015, \hF018, \hF107, \h1008 >>), \* set both timers to 3, read delay, loop
      Asm(<< \hC00F, \h1002 >>),                         \* masked random, then loop
      Asm(<< \h2000 >>),                                 \* a routine that calls itself
      Asm(<< \h2006, \h2006, \h0000, \h00EE >>),         \* two calls of one routine
      Asm(<< \h2004, \h0000, \h6003, \hF015, \h7001, \h1008 >>), \* a routine that sets delay and loops
      \* skips taken and not taken, an add, a key query, a computed jump, a loop
      Asm(<< \h6005, \h3005, \h0000, \h4005, \h5010, \h9010, \h0000,
             \h7003, \hE09E, \hB00E, \h0000, \h1016 >>),
      LongProgram }

\* where the program is loaded: Machine::of_bytes loads at LOAD_OFFSET; the
\* tests of cpu.rs load at 0, where a new cpu's pc points
LoadOffsets == {0, LOAD_OFFSET}

\* the byte the random source yields matters only to Cxnn
RandomBytes(regs, mem) ==
    IF regs.wait_for_key = None /\ get16_ok(regs.pc) /\ get16(mem, regs.pc) \div 4096 = 12
    THEN 0..255 ELSE {0}

(***************************************************************************)
(* History: the steps taken, newest first (the latest two are kept)        *)
(***************************************************************************)
\* executed: Cpu::step was called; opcode: the word at pc if it could be read
StepRecord(regs, mem) ==
    [executed |-> regs.wait_for_key = None,
     opcode |-> IF get16_ok(regs.pc) THEN get16(mem, regs.pc) ELSE 0 - 1,
     pc |-> regs.pc,
     stack_idx |-> regs.stack_idx]

Remember(rec) == IF last = << >> THEN << rec >> ELSE << rec, last[1] >>

\* the calls not yet returned from, once the step taken in (regs, mem) is over:
\* a 2nnn that returned adds its address, a 00EE that returned drops the newest
CallsAfter(regs, mem, failed) ==
    LET rec == StepRecord(regs, mem)
    IN IF ~rec.executed \/ rec.opcode < 0 \/ failed THEN pending
       ELSE IF rec.opcode \div 4096 = 2 THEN << regs.pc >> \o pending
       ELSE IF rec.opcode = \h00EE /\ pending # << >> THEN Tail(pending)
       ELSE pending

(***************************************************************************)
(* The state machine                                                       *)
(***************************************************************************)
\* a program that does not fit panics in the copy loop of Memory::of_bytes: no
\* machine is built, and the run is over before its first step
Init ==
    /\ \E prog \in Programs, offset \in LoadOffsets :
          /\ registers = Cpu_new
          /\ IF Memory_of_bytes_ok(prog, offset)
             THEN memory = Memory_of_bytes(prog, offset) /\ panic = ""
             ELSE memory = Memory_new /\ panic = PANIC_INDEX
    /\ clocks_since_delay = 0
    /\ overflow_checks \in BOOLEAN
    /\ last = << >>
    /\ pending = << >>

\* the host calls Machine::step
Step ==
    /\ panic = ""
    /\ clocks_since_delay < MaxSteps
    /\ \E rval \in RandomBytes(registers, memory) :
          LET r == Machine_step(registers, memory, clocks_since_delay, rval)
          IN /\ registers' = r.registers
             /\ memory' = r.memory
             /\ clocks_since_delay' = r.clocks_since_delay
             /\ panic' = r.panic
    /\ last' = Remember(StepRecord(registers, memory))
    /\ pending' = CallsAfter(registers, memory, panic' # "")
    /\ UNCHANGED overflow_checks

\* the host calls Machine::set_key(key, state)
SetKey ==
    /\ panic = ""
    /\ \E key \in 0..MaxKey, state \in BOOLEAN :
          registers' = set_key(registers, key, state)
    /\ UNCHANGED <<memory, clocks_since_delay, panic, overflow_checks, last, pending>>

Next == Step \/ SetKey

Spec == Init /\ [][Next]_vars

(***************************************************************************)
(* A second specification: the machine after a host or a test has assigned *)
(* public fields of cpu.registers (as the tests of cpu.rs assign v, i,     *)
(* delay and the stack) before the run.                                    *)
(***************************************************************************)
HarnessPrograms ==
    { Asm(<< \h6003, \hF015, \hF018, \hF107, \h1008 >>),
      Asm(<< \hF30A, \h6001, \h1004 >>) }

\* the values assigned to wait_for_key, to both timers, and the keys held down
HarnessLatches == {None, Some(0), Some(3)}
HarnessTimers == {0, 2}
HarnessKeysDown == {{}, {0}}

InitHarness ==
    /\ \E prog \in HarnessPrograms, latch \in HarnessLatches,
          t \in HarnessTimers, down \in HarnessKeysDown :
          /\ registers = [Cpu_new EXCEPT !.wait_for_key = latch, !.delay = t, !.sound = t,
                                         !.keys = [k \in 0..15 |-> k \in down]]
          /\ memory = Memory_of_bytes(prog, 0)
    /\ clocks_since_delay = 0
    /\ panic = ""
    /\ overflow_checks \in BOOLEAN
    /\ last = << >>
    /\ pending = << >>

SpecHarness == InitHarness /\ [][Next]_vars

(***************************************************************************)
(* A third specification: the display.  v0 and v1 hold the coordinates, i  *)
(* the sprite address; the program draws n rows, points i at the glyph of  *)
(* v2, draws twice more at the same place and clears the display.          *)
(***************************************************************************)
DrawProgram(n) == Asm(<< \hD010 + n, \hF229, \hD010 + n, \hD010 + n, \h00E0 >>)

\* the sprite heights, the coordinates (across the right and bottom edges of
\* the screen, and beyond 63 and 31), the sprite addresses (the program's
\* own bytes and the first glyph) and the digit whose glyph is drawn second
DrawHeights == {0, 5, 15}
DrawColumns == {62, 200}
DrawLines == {30, 70}
DrawSprites == {0, SPRITE_BASE}
DrawDigit == 1

InitDraw ==
    /\ \E n \in DrawHeights, x0 \in DrawColumns, y0 \in DrawLines, i0 \in DrawSprites :
          /\ registers = [Cpu_new EXCEPT !.v[0] = x0, !.v[1] = y0, !.v[2] = DrawDigit, !.i = i0]
          /\ memory = Memory_of_bytes(DrawProgram(n), 0)
    /\ clocks_since_delay = 0
    /\ panic = ""
    /\ overflow_checks \in BOOLEAN
    /\ last = << >>
    /\ pending = << >>

SpecDraw == InitDraw /\ [][Next]_vars

(***************************************************************************)
(* A fourth specification: one instruction on assigned registers, as the   *)
(* tests of cpu.rs run them.  The program is the single opcode at 0.       *)
(***************************************************************************)
\* the flag-setting sub-ops of 8xyk, and the register pairs (x, y): distinct
\* registers, x = y, y = 0xF, x = 0xE, x = 0xF, and both 0xF
MathSubOps == {4, 5, 6, 7, 8}
MathPairs == { <<0, 1>>, <<1, 1>>, <<2, 15>>, <<14, 3>>, <<15, 1>>, <<15, 15>> }
MathOpcodes == { \h8000 + (xy[1] * 256) + (xy[2] * 16) + k : xy \in MathPairs, k \in MathSubOps }

\* the values of v[x] and v[y], the immediates, and the values of v[0xF]
ByteSamples == {0, 1, 127, 128, 255}
FlagSamples == {0, 40}

\* 6xNN
LoadRegisters == {0, 7, 15}
LoadOpcodes == { \h6000 + (x * 256) + nn : x \in LoadRegisters, nn \in ByteSamples }

\* v[x] = a, v[y] = b, v[0xF] = f where it is neither, 0 elsewhere
AssignedRegisters(op, a, b, f) ==
    [Cpu_new EXCEPT !.v = [r \in 0..15 |->
        IF r = (op \div 256) % 16 THEN a
        ELSE IF r = (op \div 16) % 16 THEN b
        ELSE IF r = 15 THEN f ELSE 0]]

InitInstr ==
    /\ \/ \E op \in MathOpcodes, a \in ByteSamples, b \in ByteSamples, f \in FlagSamples :
             /\ registers = AssignedRegisters(op, a, b, f)
             /\ memory = Memory_of_bytes(Asm(<< op >>), 0)
       \/ \E op \in LoadOpcodes, a \in ByteSamples :
             /\ registers = AssignedRegisters(op, a, a, a)
             /\ memory = Memory_of_bytes(Asm(<< op >>), 0)
    /\ clocks_since_delay = 0
    /\ panic = ""
    /\ overflow_checks \in BOOLEAN
    /\ last = << >>
    /\ pending = << >>

SpecInstr == InitInstr /\ [][Next]_vars

(***************************************************************************)
(* A fifth specification: the immediate add and the conditional skips on   *)
(* assigned registers, and the two-instruction program 6005 7003.          *)
(***************************************************************************)
\* the immediates and the register values
SkipSamples == {0, 1, 255}
\* 7xNN, 3xNN and 4xNN
ImmediateRegisters == {0, 15}
ImmediateOpcodes ==
    { (top * 4096) + (x * 256) + nn :
         top \in {3, 4, 7}, x \in ImmediateRegisters, nn \in SkipSamples }
\* 5xy0 and 9xy0 on distinct registers, on x = y, and on y = 0xF
SkipPairs == { <<0, 1>>, <<1, 1>>, <<2, 15>> }
TwoRegisterSkipOpcodes ==
    { (top * 4096) + (xy[1] * 256) + (xy[2] * 16) : top \in {5, 9}, xy \in SkipPairs }
AddProgram == Asm(<< \h6005, \h7003 >>)

InitSkip ==
    /\ \/ \E op \in ImmediateOpcodes, a \in SkipSamples, f \in FlagSamples :
             /\ registers = AssignedRegisters(op, a, 1, f)
             /\ memory = Memory_of_bytes(Asm(<< op >>), 0)
       \/ \E op \in TwoRegisterSkipOpcodes, a \in SkipSamples, b \in SkipSamples :
             /\ registers = AssignedRegisters(op, a, b, 40)
             /\ memory = Memory_of_bytes(Asm(<< op >>), 0)
       \/ /\ registers = Cpu_new
          /\ memory = Memory_of_bytes(AddProgram, 0)
    /\ clocks_since_delay = 0
    /\ panic = ""
    /\ overflow_checks \in BOOLEAN
    /\ last = << >>
    /\ pending = << >>

SpecSkip == InitSkip /\ [][Next]_vars

(***************************************************************************)
(* A sixth specification: the opcodes that address memory, on assigned     *)
(* registers: Fx33 (bcd), Fx29 followed by Fx65 (a glyph, then read back), *)
(* F055 (one byte stored at i), Fx55 and Fx65 on sixteen distinct register *)
(* values, and a dump that is read back after the registers were changed.  *)
(***************************************************************************)
\* v[3] and i for F333: i in the program, in free memory, at the last three
\* bytes of the data array, and one byte too far
BcdValues == {0, 7, 10, 99, 100, 146, 255}
BcdAddresses == {0, 64, MEMORY_SIZE - 3, MEMORY_SIZE - 2}
\* v[3] for F329
FontValues == {0, 1, 15, 16, 31, 255}
\* v[0] and i for F055
StoreValues == {0, 1, 255}
StoreAddresses == {0, 2, 64, MEMORY_SIZE - 1}
\* Fx55 and Fx65: the registers before them, the last register moved, and i
\* (in the program, in free memory, at the last 16 and the last 2 bytes of the
\* data array, in the glyphs)
RegisterPattern == [r \in 0..15 |-> 17 + r]
BlockRegisters == {0, 2, 15}
DumpAddresses == {64, MEMORY_SIZE - 16, MEMORY_SIZE - 2}
BlockLoadAddresses == {0, SPRITE_BASE, MEMORY_SIZE - 16, MEMORY_SIZE - 2}
\* v0..v2 stored at 0x40, overwritten, i set back to 0x40, v0..v2 loaded
RoundTripAddress == \h040
RoundTripProgram ==
    Asm(<< \hF255, \h6000, \h61FF, \h62FF, \hA000 + RoundTripAddress, \hF265 >>)

InitMem ==
    /\ \/ \E n \in BcdValues, a \in BcdAddresses :
             /\ registers = [Cpu_new EXCEPT !.v[3] = n, !.i = a]
             /\ memory = Memory_of_bytes(Asm(<< \hF333 >>), 0)
       \/ \E d \in FontValues :
             /\ registers = [Cpu_new EXCEPT !.v[3] = d]
             /\ memory = Memory_of_bytes(Asm(<< \hF329, \hF465 >>), 0)
       \/ \E b \in StoreValues, a \in StoreAddresses :
             /\ registers = [Cpu_new EXCEPT !.v[0] = b, !.i = a]
             /\ memory = Memory_of_bytes(Asm(<< \hF055 >>), 0)
       \/ \E x \in BlockRegisters \ {0}, a \in DumpAddresses :
             /\ registers = [Cpu_new EXCEPT !.v = RegisterPattern, !.i = a]
             /\ memory = Memory_of_bytes(Asm(<< \hF055 + (x * 256) >>), 0)
       \/ \E x \in BlockRegisters, a \in BlockLoadAddresses :
             /\ registers = [Cpu_new EXCEPT !.v = RegisterPattern, !.i = a]
             /\ memory = Memory_of_bytes(Asm(<< \hF065 + (x * 256) >>), 0)
       \/ /\ registers = [Cpu_new EXCEPT !.v = RegisterPattern, !.i = RoundTripAddress]
          /\ memory = Memory_of_bytes(RoundTripProgram, 0)
    /\ clocks_since_delay = 0
    /\ panic = ""
    /\ overflow_checks \in BOOLEAN
    /\ last = << >>
    /\ pending = << >>

SpecMem == InitMem /\ [][Next]_vars

(***************************************************************************)
(* A seventh specification: one opcode that only moves values between      *)
(* registers, on assigned registers: 8xy0..8xy3, the timer opcodes Fx07,   *)
(* Fx15 and Fx18, Fx1E and ANNN, CxNN, and ExNN.                           *)
(***************************************************************************)
\* 8xy0..8xy3 on distinct registers, on x = y, on y = 0xF and on x = 0xF
LogicSamples == {0, 15, 53, 255}
LogicPairs == { <<0, 1>>, <<1, 1>>, <<2, 15>>, <<15, 1>> }
LogicOpcodes ==
    { \h8000 + (xy[1] * 256) + (xy[2] * 16) + k : xy \in LogicPairs, k \in 0..3 }
\* Fx07, Fx15 and Fx18; v[x], delay and sound before them
TimerRegisters == {0, 15}
TimerOpcodes ==
    { \hF000 + (x * 256) + nn : x \in TimerRegisters, nn \in {\h07, \h15, \h18} }
TimerSamples == {0, 2, 255}
SoundSamples == {0, 7}
\* Fx1E with i below, at and past the 12-bit range; ANNN
IndexOpcodes == { \hF01E, \hFF1E }
IndexSamples == {0, \h0FFF, \hFFFF}
SetIndexOpcodes == { \hA000, \hA123, \hAFFF }
\* CxNN with the masks 0x00, 0x0F and 0xA5, on a register that holds 255
RandomOpcodes == { \hC000, \hC00F, \hCFA5, \hCF00 }
\* ExNN: the two skips on a key, and two low bytes no skip has
KeyOpcodes == { \hE09E, \hE0A1, \hEF00, \hEFFF }
KeySamples == {0, 1}

InitRegs ==
    /\ \/ \E op \in LogicOpcodes, a \in LogicSamples, b \in LogicSamples :
             /\ registers = AssignedRegisters(op, a, b, 40)
             /\ memory = Memory_of_bytes(Asm(<< op >>), 0)
       \/ \E op \in TimerOpcodes, a \in TimerSamples, d \in TimerSamples, t \in SoundSamples :
             /\ registers = [AssignedRegisters(op, a, 9, 40) EXCEPT !.delay = d, !.sound = t]
             /\ memory = Memory_of_bytes(Asm(<< op >>), 0)
       \/ \E op \in IndexOpcodes, a \in TimerSamples, addr \in IndexSamples :
             /\ registers = [AssignedRegisters(op, a, 9, 40) EXCEPT !.i = addr]
             /\ memory = Memory_of_bytes(Asm(<< op >>), 0)
       \/ \E op \in SetIndexOpcodes :
             /\ registers = [AssignedRegisters(op, 9, 9, 40) EXCEPT !.i = \h0777]
             /\ memory = Memory_of_bytes(Asm(<< op >>), 0)
       \/ \E op \in RandomOpcodes :
             /\ registers = AssignedRegisters(op, 255, 9, 40)
             /\ memory = Memory_of_bytes(Asm(<< op >>), 0)
       \/ \E op \in KeyOpcodes, a \in KeySamples :
             /\ registers = [AssignedRegisters(op, a, 9, 40) EXCEPT !.i = \h0777]
             /\ memory = Memory_of_bytes(Asm(<< op >>), 0)
    /\ clocks_since_delay = 0
    /\ panic = ""
    /\ overflow_checks \in BOOLEAN
    /\ last = << >>
    /\ pending = << >>

SpecRegs == InitRegs /\ [][Next]_vars

(***************************************************************************)
(* An eighth specification: the machines Machine::of_bytes builds, as main *)
(* builds its machine from the file it read.                               *)
(***************************************************************************)
InitMachine ==
    /\ \E prog \in Programs :
          IF Memory_of_bytes_ok(prog, LOAD_OFFSET)
          THEN LET machine == Machine_of_bytes(prog)
               IN /\ registers = machine.cpu
                  /\ memory = machine.memory
                  /\ clocks_since_delay = machine.clocks_since_delay
                  /\ panic = ""
          ELSE /\ registers = Cpu_new
               /\ memory = Memory_new
               /\ clocks_since_delay = 0
               /\ panic = PANIC_INDEX
    /\ overflow_checks \in BOOLEAN
    /\ last = << >>
    /\ pending = << >>

SpecMachine == InitMachine /\ [][Next]_vars

(***************************************************************************)
(* A ninth specification: three nested routines, run on an empty call      *)
(* stack and on one that already holds 126 of the 128 return addresses it  *)
(* has room for (the stack is assigned as the test ret of cpu.rs assigns   *)
(* it).                                                                    *)
(***************************************************************************)
\* the calls are at 0, 8 and 16; every routine adds to v0 before and after
\* its own call; after the outermost return the program loops at 4
NestedProgram ==
    Asm(<< \h2006, \h6101, \h1004,
           \h7001, \h200E, \h7002, \h00EE,
           \h6203, \h2016, \h7004, \h00EE,
           \h7008, \h00EE >>)
\* the number of return addresses on the stack before the run
StackDepths == {0, (STACK_SIZE \div 2) - 2}
\* a stack of d return addresses, each 0x0004
DeepStack(d) ==
    [Cpu_new EXCEPT !.stack = [b \in 0..(STACK_SIZE - 1) |->
                                  IF b < 2 * d /\ b % 2 = 1 THEN 4 ELSE 0],
                    !.stack_idx = 2 * d]

InitStack ==
    /\ \E d \in StackDepths :
          /\ registers = DeepStack(d)
          /\ memory = Memory_of_bytes(NestedProgram, 0)
    /\ clocks_since_delay = 0
    /\ panic = ""
    /\ overflow_checks \in BOOLEAN
    /\ last = << >>
    /\ pending = << >>

SpecStack == InitStack /\ [][Next]_vars

(***************************************************************************)
(* Vocabulary of the properties                                            *)
(***************************************************************************)
\* this transition is a call of Machine::step that returned
StepReturned == clocks_since_delay' = clocks_since_delay + 1
\* this transition is a call of Machine::step that panicked
StepPanicked == panic = "" /\ panic' # ""
StepTaken == StepReturned \/ StepPanicked

\* Machine::step, called in this state, runs Cpu::step on a readable opcode
Executing == panic = "" /\ registers.wait_for_key = None /\ get16_ok(registers.pc)
\* the opcode Cpu::step fetches in this state
Opcode == get16(memory, registers.pc)

OpX(op) == (op \div 256) % 16
OpNN(op) == op % 256
IsCall(op) == op \div 4096 = 2
IsReturn(op) == op = \h00EE
OpY(op) == (op \div 16) % 16
OpN(op) == op % 16
IsMath(op, k) == op \div 4096 = 8 /\ op % 16 = k
IsLoadImmediate(op) == op \div 4096 = 6
IsDraw(op) == op \div 4096 = 13
IsLoadOp(op, nn) == op \div 4096 = 15 /\ OpNN(op) = nn

\* the opcodes with no operation mapped to them
Unmapped(op) ==
    \/ op \div 4096 = 0 /\ op \notin {\h00E0, \h00EE}
    \/ op \div 4096 = 8 /\ op % 16 >= 9
    \/ op \div 4096 = 15
       /\ OpNN(op) \notin {\h07, \h0A, \h15, \h18, \h1E, \h29, \h33, \h55, \h65}

(***************************************************************************)
(* Properties                                                              *)
(***************************************************************************)
\* C1: a call 2NNN at pc = p with stack index d, followed by a return 00EE
\* executed at NNN, leaves pc = p + 2 and the stack index back at d.
C1_CallReturnRoundTrip ==
    [][(/\ last # << >>
        /\ last[1].executed
        /\ IsCall(last[1].opcode)
        /\ Executing
        /\ registers.pc = last[1].opcode % 4096
        /\ IsReturn(Opcode)
        /\ StepTaken)
       => /\ panic' = ""
          /\ registers'.pc = W16(last[1].pc + 2)
          /\ registers'.stack_idx = last[1].stack_idx]_vars

\* C1 witness: the program 2004 0000 00EE, two steps from pc = 0: pc is 2 and
\* the stack is empty again.
C1_Witness ==
    /\ Len(last) = 2
    /\ last[2].executed /\ IsCall(last[2].opcode) /\ last[2].pc = 0
    /\ last[1].executed /\ IsReturn(last[1].opcode) /\ last[1].pc = 4
    /\ last[1].stack_idx = 2
    /\ panic = ""
    /\ clocks_since_delay = 2
    /\ registers.pc = 2
    /\ registers.stack_idx = 0

\* C2: a step on an opcode with no mapped operation panics, and registers,
\* memory, frame buffer and tick counter are then as they were before the step.
C2_UnmappedOpcodeIsFatal ==
    [][(Executing /\ Unmapped(Opcode) /\ StepTaken)
       => /\ panic' # ""
          /\ registers' = registers
          /\ memory' = memory
          /\ clocks_since_delay' = clocks_since_delay]_vars

\* C2 witness: the run has stopped on Fx34 (F134), reached after one
\* instruction, with the register that instruction wrote still in place.
C2_Witness ==
    /\ panic = PANIC_INVALID
    /\ last # << >>
    /\ last[1].executed
    /\ last[1].opcode = \hF134
    /\ Unmapped(last[1].opcode)
    /\ registers.pc = last[1].pc
    /\ registers.v[1] = 7

\* C3: a return 00EE on an empty stack panics, pc is not assigned, and the
\* stack index neither wraps nor goes negative.
C3_ReturnOnEmptyStack ==
    [][(Executing /\ IsReturn(Opcode) /\ registers.stack_idx = 0 /\ StepTaken)
       => /\ panic' # ""
          /\ registers'.pc = registers.pc
          /\ registers'.stack_idx = 0]_vars

\* the data region [0, 0x2000) and the font window [0x4000, 0x4000 + 80)
InRegions(a) ==
    \/ 0 <= a /\ a < MEMORY_SIZE
    \/ SPRITE_BASE <= a /\ a < SPRITE_BASE + Len(SPRITE_MEM)

\* the addresses the handler of opcode op reads or writes with index register i
AddressesUsed(op, i) ==
    IF op \div 4096 = 13 THEN { i + r : r \in 0..((op % 16) - 1) }
    ELSE IF IsLoadOp(op, \h33) THEN { W16(i + k) : k \in 0..2 }
    ELSE IF IsLoadOp(op, \h55) \/ IsLoadOp(op, \h65) THEN { W16(i + k) : k \in 0..OpX(op) }
    ELSE {}

\* the latest step was a mapped opcode that panicked on one of its addresses
MemoryFault ==
    /\ panic = PANIC_INDEX
    /\ last # << >>
    /\ last[1].executed
    /\ last[1].opcode >= 0
    /\ ~Unmapped(last[1].opcode)
    /\ ~IsCall(last[1].opcode)
    /\ ~IsReturn(last[1].opcode)

\* C4: in every reachable state the opcode at pc can be fetched and every
\* address a mapped opcode uses lies in the data region or the font window, and
\* no mapped opcode has failed on a memory access.
C4_AddressesInRange ==
    /\ (panic = "" /\ registers.wait_for_key = None)
          => /\ InRegions(registers.pc)
             /\ InRegions(registers.pc + 1)
             /\ ~Unmapped(Opcode) => \A a \in AddressesUsed(Opcode, registers.i) : InRegions(a)
    /\ ~MemoryFault

\* C5: a step that ends in a panic has changed no register, no memory byte
\* and no frame buffer cell.
C5_FatalStepChangesNothing ==
    [][StepPanicked
       => /\ registers'.v = registers.v
          /\ registers'.i = registers.i
          /\ memory'.data = memory.data
          /\ memory'.frame_buffer = memory.frame_buffer]_vars

\* C6: executing Fx0A sets the key latch to Some(x).
C6_WaitForKeySetsLatch ==
    [][(Executing /\ IsLoadOp(Opcode, \h0A) /\ StepTaken)
       => registers'.wait_for_key = Some(OpX(Opcode))]_vars

\* C7: while the key latch is set a call of Machine::step executes no
\* instruction: it returns with pc, v, i, the stack, the keys, the latch, the
\* memory and the frame buffer unchanged; the tick counter advances and only
\* delay and sound may change, each staying or going down by one.
C7_NoInstructionWhileWaiting ==
    [][(panic = "" /\ registers.wait_for_key # None /\ StepTaken)
       => /\ panic' = ""
          /\ clocks_since_delay' = clocks_since_delay + 1
          /\ memory' = memory
          /\ registers' = [registers EXCEPT !.delay = registers'.delay,
                                            !.sound = registers'.sound]
          /\ registers'.delay \in {registers.delay, registers.delay - 1}
          /\ registers'.sound \in {registers.sound, registers.sound - 1}]_vars

\* C7 witness: the latch has been set through nine steps of a machine whose
\* first opcode is 6003: none of them executed, pc is still 0 and v0 still 0,
\* and the timers assigned 2 have run down.
C7_Witness ==
    /\ registers.wait_for_key = Some(3)
    /\ clocks_since_delay = 9
    /\ Len(last) = 2
    /\ ~last[1].executed /\ ~last[2].executed
    /\ last[1].opcode = \h6003
    /\ registers.pc = 0
    /\ registers.v[0] = 0
    /\ registers.delay = 0
    /\ panic = ""

\* C8: a key event (a transition that is no step and changes the registers)
\* changes the state of exactly one key k; if k went down while the latch was
\* Some(r) then v[r] = k and the latch is cleared; otherwise v and the latch
\* are unchanged; nothing else changes.
C8_SetKey ==
    [][(/\ clocks_since_delay' = clocks_since_delay
        /\ panic' = panic
        /\ registers' # registers)
       => \E k \in 0..15 :
             LET down == registers'.keys[k]
             IN /\ registers.keys[k] # down
                /\ memory' = memory
                /\ IF down /\ registers.wait_for_key # None
                   THEN registers' = [registers EXCEPT
                                          !.keys[k] = TRUE,
                                          !.v[registers.wait_for_key[1]] = k,
                                          !.wait_for_key = None]
                   ELSE registers' = [registers EXCEPT !.keys[k] = down]]_vars

\* C8 witness: before any step, key 1 went down while the latch was Some(3):
\* v3 holds 1, the latch is clear and key 1 is recorded as down.
C8_Witness ==
    /\ clocks_since_delay = 0
    /\ panic = ""
    /\ registers.wait_for_key = None
    /\ registers.v[3] = 1
    /\ registers.keys[1]
    /\ ~registers.keys[0]

\* the timer value an instruction leaves: Fx15 and Fx18 assign v[x], every
\* other opcode (and a step of a waiting machine) leaves the timer alone
DelayAfterExec ==
    IF Executing /\ IsLoadOp(Opcode, \h15) THEN registers.v[OpX(Opcode)] ELSE registers.delay
SoundAfterExec ==
    IF Executing /\ IsLoadOp(Opcode, \h18) THEN registers.v[OpX(Opcode)] ELSE registers.sound

\* C9: the timers tick on every CLOCKS_PER_DELAY-th step: the step that brings
\* the tick counter to CLOCKS_PER_DELAY decrements each nonzero timer and
\* resets the counter to 0; on every other step the counter goes up by one and
\* a timer changes only by Fx15 or Fx18.
C9_TimerRatio ==
    [][StepReturned
       => IF clocks_since_delay + 1 >= CLOCKS_PER_DELAY
          THEN /\ clocks_since_delay' = 0
               /\ registers'.delay = IF DelayAfterExec > 0 THEN DelayAfterExec - 1 ELSE 0
               /\ registers'.sound = IF SoundAfterExec > 0 THEN SoundAfterExec - 1 ELSE 0
          ELSE /\ registers'.delay = DelayAfterExec
               /\ registers'.sound = SoundAfterExec]_vars

\* the step that returns in this transition ticked the timers
Ticked == clocks_since_delay' >= CLOCKS_PER_DELAY

\* C10: delay and sound stay in 0..255; a tick leaves a timer that is 0 at 0
\* and lowers a nonzero timer by exactly 1; without a tick a timer keeps the
\* value the instruction left; and no transition other than a step that
\* returns changes a timer, so a timer at 0 stays 0 until Fx15 or Fx18.
C10_TimersNeverBelowZero ==
    [][/\ registers'.delay \in 0..255
       /\ registers'.sound \in 0..255
       /\ IF StepReturned
          THEN /\ registers'.delay =
                     IF Ticked /\ DelayAfterExec > 0 THEN DelayAfterExec - 1 ELSE DelayAfterExec
               /\ registers'.sound =
                     IF Ticked /\ SoundAfterExec > 0 THEN SoundAfterExec - 1 ELSE SoundAfterExec
          ELSE /\ registers'.delay = registers.delay
               /\ registers'.sound = registers.sound]_vars

\* C10 witness: the program 6003 F015 F018 F107 1008 after eleven steps: delay
\* was 3 when F107 read it, has run down to 0 and stayed 0 through a tick.
C10_Witness ==
    /\ clocks_since_delay = 11
    /\ panic = ""
    /\ registers.v[0] = 3
    /\ registers.v[1] = 3
    /\ registers.delay = 0
    /\ registers.sound = 0
    /\ last[1].opcode = \h1008

\* C11: the call stack never holds more than 16 return addresses (each return
\* address takes two bytes of the stack, so the depth is stack_idx / 2).
C11_StackDepthAtMost16 == registers.stack_idx \div 2 <= 16

\* the framebuffer cell of row r, column c of a sprite drawn at (x0, y0): the
\* column wraps at the screen width and the row at the screen height
Pixel(x0, y0, r, c) == (((y0 + r) % SCREEN_HEIGHT) * SCREEN_WIDTH) + ((x0 + c) % SCREEN_WIDTH)
\* bit (7 - c) of the sprite byte of row r
SpriteBit(mem, i, r, c) == (get(mem, i + r) \div (2 ^ (7 - c))) % 2

\* C12: a step that executes Dxyn and returns XORs, for every row r < n and
\* column c < 8, the pixel at ((v[x]+c) mod 64, (v[y]+r) mod 32) with bit
\* (7-c) of the byte at i+r, leaves every other pixel alone, sets v[0xF] to 1
\* iff some pixel went from 1 to 0 (0 otherwise), and advances pc by 2.
C12_DrawSprite ==
    [][(Executing /\ IsDraw(Opcode) /\ StepReturned)
       => LET x0 == registers.v[OpX(Opcode)]
              y0 == registers.v[OpY(Opcode)]
              n == OpN(Opcode)
              cells == (0..(n - 1)) \X (0..7)
              touched == {Pixel(x0, y0, rc[1], rc[2]) : rc \in cells}
              fb == memory.frame_buffer
          IN /\ \A rc \in cells :
                   memory'.frame_buffer[Pixel(x0, y0, rc[1], rc[2])]
                     = (fb[Pixel(x0, y0, rc[1], rc[2])]
                        + SpriteBit(memory, registers.i, rc[1], rc[2])) % 2
             /\ \A p \in (0..(SCREEN_SIZE - 1)) \ touched : memory'.frame_buffer[p] = fb[p]
             /\ registers'.v[15] =
                   IF \E p \in touched : fb[p] = 1 /\ memory'.frame_buffer[p] = 0
                   THEN 1 ELSE 0
             /\ registers'.pc = (registers.pc + 2) % 65536]_vars

\* C12 witness: glyph 0 drawn at (62, 30), then glyph 1 at the same place:
\* the second draw wrapped on both axes, turned (0, 30) off (a collision) and
\* left (62, 30) and (62, 2) lit, (63, 2) dark.
C12_Witness ==
    /\ clocks_since_delay = 3
    /\ last[1].opcode = \hD015
    /\ last[1].executed
    /\ registers.v[0] = 62
    /\ registers.v[1] = 30
    /\ registers.i = SPRITE_BASE + 5
    /\ registers.v[15] = 1
    /\ memory.frame_buffer[(30 * SCREEN_WIDTH) + 0] = 0
    /\ memory.frame_buffer[(30 * SCREEN_WIDTH) + 62] = 1
    /\ memory.frame_buffer[(2 * SCREEN_WIDTH) + 62] = 1
    /\ memory.frame_buffer[(2 * SCREEN_WIDTH) + 63] = 0

\* C13: when a step has drawn a sprite, drawing the same sprite again at the
\* same place (same x, y, height and address) gives back the framebuffer of
\* before the first draw, and reports a collision if the first draw turned on
\* at least one pixel.
C13_DoubleDraw ==
    [][(Executing /\ IsDraw(Opcode) /\ StepReturned)
       => LET again == Memory_draw_sprite(memory', registers.v[OpX(Opcode)],
                                          registers.v[OpY(Opcode)], OpN(Opcode), registers.i)
              turned_on == \E p \in 0..(SCREEN_SIZE - 1) :
                              memory.frame_buffer[p] = 0 /\ memory'.frame_buffer[p] = 1
          IN /\ again.panic = ""
             /\ again.memory.frame_buffer = memory.frame_buffer
             /\ turned_on => again.vf_reg = 1]_vars

\* C13 witness: glyph 0 at (62, 30), then glyph 1 drawn twice over it: the pair
\* of draws is done, the second of them collided, and (0, 30), lit before the
\* pair and turned off by its first draw, is lit again.
C13_Witness ==
    /\ clocks_since_delay = 4
    /\ last[1].opcode = \hD015
    /\ last[2].opcode = \hD015
    /\ last[1].executed /\ last[2].executed
    /\ registers.v[0] = 62
    /\ registers.v[1] = 30
    /\ registers.i = SPRITE_BASE + 5
    /\ registers.v[15] = 1
    /\ memory.frame_buffer[(30 * SCREEN_WIDTH) + 0] = 1
    /\ memory.frame_buffer[(31 * SCREEN_WIDTH) + 63] = 0

\* C14: every cell of the framebuffer holds 0 or 1.
C14_PixelsAreBits == \A p \in 0..(SCREEN_SIZE - 1) : memory.frame_buffer[p] \in {0, 1}

\* C14 witness: three draws of 15 rows, the last over lit pixels, have left
\* lit and dark cells; the clear that follows is still to run.
C14_Witness ==
    /\ clocks_since_delay = 4
    /\ last[1].opcode = \hD01F
    /\ last[2].opcode = \hD01F
    /\ Executing /\ Opcode = \h00E0
    /\ \E p \in 0..(SCREEN_SIZE - 1) : memory.frame_buffer[p] = 1
    /\ \E p \in 0..(SCREEN_SIZE - 1) : memory.frame_buffer[p] = 0

\* the step of this transition executed a sub-op k of 8xyk and returned
MathStep(k) == Executing /\ IsMath(Opcode, k) /\ StepReturned
\* pc has advanced by one instruction
PcAdvanced == registers'.pc = (registers.pc + 2) % 65536

\* C15: 8xy4 with x # 0xF, v[x] = a, v[y] = b leaves v[x] = (a + b) mod 256,
\* v[0xF] = 1 iff a + b > 255 (0 otherwise, whatever v[0xF] held), v[y]
\* unchanged when y is neither x nor 0xF, and pc advanced by 2.
C15_AddRegister ==
    [][(MathStep(4) /\ OpX(Opcode) # 15)
       => LET x == OpX(Opcode)
              y == OpY(Opcode)
              a == registers.v[x]
              b == registers.v[y]
          IN /\ registers'.v[x] = (a + b) % 256
             /\ registers'.v[15] = IF a + b > 255 THEN 1 ELSE 0
             /\ y \notin {x, 15} => registers'.v[y] = b
             /\ PcAdvanced]_vars

\* C15 witness: 8014 on v0 = 255, v1 = 128 has left v0 = 127 and the carry.
C15_Witness ==
    /\ clocks_since_delay = 1
    /\ last[1].opcode = \h8014
    /\ last[1].executed
    /\ registers.v[0] = 127
    /\ registers.v[1] = 128
    /\ registers.v[15] = 1
    /\ registers.pc = 2

\* C16: with x # 0xF, v[x] = a, v[y] = b: 8xy5 leaves v[x] = (a - b) mod 256
\* and v[0xF] = 1 iff b > a; 8xy7 leaves v[x] = (b - a) mod 256 and
\* v[0xF] = 1 iff a > b; v[0xF] is 0 otherwise and pc advances by 2.
C16_SubRegister ==
    [][/\ (MathStep(5) /\ OpX(Opcode) # 15)
          => LET a == registers.v[OpX(Opcode)]
                 b == registers.v[OpY(Opcode)]
             IN /\ registers'.v[OpX(Opcode)] = (a - b) % 256
                /\ registers'.v[15] = IF b > a THEN 1 ELSE 0
                /\ PcAdvanced
       /\ (MathStep(7) /\ OpX(Opcode) # 15)
          => LET a == registers.v[OpX(Opcode)]
                 b == registers.v[OpY(Opcode)]
             IN /\ registers'.v[OpX(Opcode)] = (b - a) % 256
                /\ registers'.v[15] = IF a > b THEN 1 ELSE 0
                /\ PcAdvanced]_vars

\* C16 witness: 8015 on v0 = 1, v1 = 128 has left v0 = 129 and the borrow.
C16_Witness ==
    /\ clocks_since_delay = 1
    /\ last[1].opcode = \h8015
    /\ last[1].executed
    /\ registers.v[0] = 129
    /\ registers.v[1] = 128
    /\ registers.v[15] = 1
    /\ registers.pc = 2

\* C17: 8xy8 with x # 0xF and v[x] = a leaves v[x] = (2 * a) mod 256 and
\* v[0xF] = bit 7 of a (1 when it was set, 0 otherwise); pc advances by 2.
C17_ShiftLeft ==
    [][(MathStep(8) /\ OpX(Opcode) # 15)
       => LET a == registers.v[OpX(Opcode)]
          IN /\ registers'.v[OpX(Opcode)] = (2 * a) % 256
             /\ registers'.v[15] = a \div 128
             /\ PcAdvanced]_vars

\* C18: 8xy6 with x # 0xF and v[x] = a leaves v[x] = a div 2 and
\* v[0xF] = a mod 2; v[y] plays no part (the result is a function of a alone,
\* and v[y] is unchanged when y is neither x nor 0xF); pc advances by 2.
C18_ShiftRight ==
    [][(MathStep(6) /\ OpX(Opcode) # 15)
       => LET x == OpX(Opcode)
              y == OpY(Opcode)
              a == registers.v[x]
          IN /\ registers'.v[x] = a \div 2
             /\ registers'.v[15] = a % 2
             /\ y \notin {x, 15} => registers'.v[y] = registers.v[y]
             /\ PcAdvanced]_vars

\* C18 witness: 8016 on v0 = 255, v1 = 128 has left v0 = 127, the flag 1 and
\* v1 as it was.
C18_Witness ==
    /\ clocks_since_delay = 1
    /\ last[1].opcode = \h8016
    /\ last[1].executed
    /\ registers.v[0] = 127
    /\ registers.v[1] = 128
    /\ registers.v[15] = 1
    /\ registers.pc = 2

\* the flag each sub-op defines for the operands a = v[x], b = v[y]
FlagOf(k, a, b) ==
    CASE k = 4 -> IF a + b > 255 THEN 1 ELSE 0
      [] k = 5 -> IF b > a THEN 1 ELSE 0
      [] k = 6 -> a % 2
      [] k = 7 -> IF a > b THEN 1 ELSE 0
      [] k = 8 -> a \div 128

\* C19: 8Fy4, 8Fy5, 8Fy6, 8Fy7 and 8Fy8 leave the flag of the sub-op in
\* v[0xF], not the result of the arithmetic.
C19_FlagWinsOverResult ==
    [][(Executing /\ Opcode \div 4096 = 8 /\ OpN(Opcode) \in 4..8
        /\ OpX(Opcode) = 15 /\ StepReturned)
       => registers'.v[15]
            = FlagOf(OpN(Opcode), registers.v[15], registers.v[OpY(Opcode)])]_vars

\* C20: 6xNN leaves v[x] = NN and pc advanced by 2; every other register, i,
\* the stack and its index, the keys and the latch, the memory and the
\* framebuffer are unchanged, and so are the timers (but for the tick
\* Machine::step makes after the instruction).
C20_LoadImmediate ==
    [][(Executing /\ IsLoadImmediate(Opcode) /\ StepReturned)
       => LET after == [registers EXCEPT !.v[OpX(Opcode)] = OpNN(Opcode),
                                         !.pc = (registers.pc + 2) % 65536]
          IN /\ [registers' EXCEPT !.delay = after.delay, !.sound = after.sound] = after
             /\ ~Ticked => /\ registers'.delay = registers.delay
                           /\ registers'.sound = registers.sound
             /\ memory' = memory]_vars

\* C20 witness: 6FFF on v15 = 1 has left v15 = 255 and every other
\* register at 0.
C20_Witness ==
    /\ clocks_since_delay = 1
    /\ last[1].opcode = \h6FFF
    /\ last[1].executed
    /\ registers.v[15] = 255
    /\ \A r \in 0..14 : registers.v[r] = 0
    /\ registers.pc = 2
    /\ panic = ""

\* the instruction of this step has left the registers as in after: every
\* field but the timers is compared as it is, the timers apart from the tick
\* Machine::step makes when the instruction is done
InstructionLeft(after) ==
    /\ [registers' EXCEPT !.delay = after.delay, !.sound = after.sound] = after
    /\ ~Ticked => /\ registers'.delay = after.delay
                  /\ registers'.sound = after.sound

\* C21: 7xNN leaves v[x] = (v[x] + NN) mod 256 and pc advanced by 2, and
\* writes nothing else: v[0xF] keeps its value when x # 0xF.  The program
\* 6005 7003 run for two steps from pc = 0 ends with v[0] = 8 and pc = 4.
C21_AddImmediate ==
    [][/\ (Executing /\ Opcode \div 4096 = 7 /\ StepReturned)
          => /\ InstructionLeft([registers EXCEPT
                    !.v[OpX(Opcode)] = (registers.v[OpX(Opcode)] + OpNN(Opcode)) % 256,
                    !.pc = (registers.pc + 2) % 65536])
             /\ OpX(Opcode) # 15 => registers'.v[15] = registers.v[15]
       /\ (/\ StepReturned
           /\ memory.data[0] = \h60 /\ memory.data[1] = \h05
           /\ memory.data[2] = \h70 /\ memory.data[3] = \h03
           /\ last # << >> /\ last[1].pc = 0 /\ last[1].executed
           /\ clocks_since_delay = 1)
          => registers'.v[0] = 8 /\ registers'.pc = 4]_vars

\* C21 witness: the two steps of 6005 7003 are done.
C21_Witness ==
    /\ clocks_since_delay = 2
    /\ Len(last) = 2
    /\ last[2].opcode = \h6005 /\ last[2].pc = 0 /\ last[2].executed
    /\ last[1].opcode = \h7003 /\ last[1].pc = 2 /\ last[1].executed
    /\ registers.v[0] = 8
    /\ registers.pc = 4
    /\ panic = ""

\* the condition of a conditional skip: 3xNN, 4xNN, 5xy0, 9xy0
SkipCondition(op) ==
    CASE op \div 4096 = 3 -> registers.v[OpX(op)] = OpNN(op)
      [] op \div 4096 = 4 -> registers.v[OpX(op)] # OpNN(op)
      [] op \div 4096 = 5 -> registers.v[OpX(op)] = registers.v[OpY(op)]
      [] op \div 4096 = 9 -> registers.v[OpX(op)] # registers.v[OpY(op)]
IsSkip(op) == op \div 4096 \in {3, 4} \/ (op \div 4096 \in {5, 9} /\ OpN(op) = 0)

\* C22: a conditional skip advances pc by 4 when its condition holds and by
\* 2 when it does not, and changes nothing but pc.
C22_ConditionalSkips ==
    [][(Executing /\ IsSkip(Opcode) /\ StepReturned)
       => /\ InstructionLeft([registers EXCEPT
                 !.pc = (registers.pc + (IF SkipCondition(Opcode) THEN 4 ELSE 2)) % 65536])
          /\ memory' = memory]_vars

\* C22 witness: 9010 on v0 = 255, v1 = 1 has skipped.
C22_Witness ==
    /\ clocks_since_delay = 1
    /\ last[1].opcode = \h9010
    /\ last[1].executed
    /\ registers.v[0] = 255
    /\ registers.v[1] = 1
    /\ registers.v[15] = 40
    /\ registers.pc = 4
    /\ panic = ""

\* C23: Fx33 with v[x] = n and i = a leaves the hundreds digit of n at a, the
\* tens digit at a + 1 and the units digit at a + 2, i = a + 3, every v
\* register as it was, and pc advanced by 2.
C23_BcdStore ==
    [][(Executing /\ IsLoadOp(Opcode, \h33) /\ StepReturned)
       => LET n == registers.v[OpX(Opcode)]
              a == registers.i
          IN /\ get(memory', a) = n \div 100
             /\ get(memory', a + 1) = (n \div 10) % 10
             /\ get(memory', a + 2) = n % 10
             /\ registers'.i = a + 3
             /\ registers'.v = registers.v
             /\ PcAdvanced]_vars

\* C23 witness: F333 on v3 = 146, i = 0x40 has stored 1, 4, 6.
C23_Witness ==
    /\ clocks_since_delay = 1
    /\ last[1].opcode = \hF333
    /\ last[1].executed
    /\ registers.v[3] = 146
    /\ memory.data[64] = 1
    /\ memory.data[65] = 4
    /\ memory.data[66] = 6
    /\ registers.i = 67
    /\ registers.pc = 2
    /\ panic = ""

\* the addresses words are read at: the program, free memory, the end of the
\* data array, the glyphs
WordProbes ==
    (0..7) \cup (64..66) \cup ((MEMORY_SIZE - 4)..MEMORY_SIZE)
           \cup (SPRITE_BASE..(SPRITE_BASE + 80))

\* C24: a word is read high byte first: wherever both bytes can be read,
\* get16(a) = 256 * get(a) + get(a + 1); so the top nibble of the opcode
\* fetched at pc is the high nibble of the byte at pc.
C24_WordsAreBigEndian ==
    /\ \A a \in WordProbes :
          get16_ok(a) => get16(memory, a) = (256 * get(memory, a)) + get(memory, a + 1)
    /\ Executing => Opcode \div 4096 = get(memory, registers.pc) \div 16

\* C24 witness: the bytes F3 29 at address 0 were fetched as the opcode F329
\* and executed, and the bytes F4 65 are next.
C24_Witness ==
    /\ clocks_since_delay = 1
    /\ memory.data[0] = \hF3 /\ memory.data[1] = \h29
    /\ last[1].opcode = \hF329 /\ last[1].pc = 0 /\ last[1].executed
    /\ registers.i = SPRITE_BASE + 75
    /\ Executing /\ Opcode = \hF465
    /\ memory.data[2] = \hF4 /\ memory.data[3] = \h65

\* the five rows of the glyph of hex digit d
Glyph(d) == SubSeq(SPRITE_MEM, (5 * d) + 1, (5 * d) + 5)

\* C25: Fx29 leaves i = 0x4000 + (v[x] mod 16) * 5 and pc advanced by 2; the
\* bytes read at i..i+4 are the rows of the glyph of digit v[x] mod 16 (F0 90
\* 90 90 F0 for 0, F0 80 F0 80 80 for F), whatever the data array holds.
C25_FontAddressing ==
    [][(Executing /\ IsLoadOp(Opcode, \h29) /\ StepReturned)
       => LET d == registers.v[OpX(Opcode)] % 16
          IN /\ registers'.i = \h4000 + (d * 5)
             /\ PcAdvanced
             /\ \A k \in 0..4 :
                   /\ get_ok(registers'.i + k)
                   /\ get(memory', registers'.i + k) = Glyph(d)[k + 1]
                   /\ get(Memory_new, registers'.i + k) = Glyph(d)[k + 1]
             /\ d = 0 => Glyph(d) = << \hF0, \h90, \h90, \h90, \hF0 >>
             /\ d = 15 => Glyph(d) = << \hF0, \h80, \hF0, \h80, \h80 >>]_vars

\* C25 witness: F329 on v3 = 31 pointed i at the glyph of F, and F465 has read
\* its rows into v0..v4.
C25_Witness ==
    /\ clocks_since_delay = 2
    /\ last[2].opcode = \hF329 /\ last[2].executed
    /\ last[1].opcode = \hF465 /\ last[1].executed
    /\ registers.v[0] = \hF0
    /\ registers.v[1] = \h80
    /\ registers.v[2] = \hF0
    /\ registers.v[3] = \h80
    /\ registers.v[4] = \h80
    /\ registers.i = SPRITE_BASE + 80
    /\ panic = ""

\* every address Memory::get can read
Readable == (0..(MEMORY_SIZE - 1)) \cup (SPRITE_BASE..(SPRITE_BASE + Len(SPRITE_MEM) - 1))

\* C26: F055 is set(i, v[0]): afterwards get(i) returns v[0], and get of every
\* other readable address returns what it returned before.
C26_SetThenGet ==
    [][(Executing /\ Opcode = \hF055 /\ StepReturned)
       => /\ registers.i \in 0..(MEMORY_SIZE - 1)
          /\ get(memory', registers.i) = registers.v[0]
          /\ \A a \in Readable \ {registers.i} : get(memory', a) = get(memory, a)]_vars

\* C26 witness: F055 on v0 = 255, i = 0x1FFF has stored 255 in the last byte
\* of the data array.
C26_Witness ==
    /\ clocks_since_delay = 1
    /\ last[1].opcode = \hF055
    /\ last[1].executed
    /\ registers.v[0] = 255
    /\ registers.i = MEMORY_SIZE
    /\ memory.data[MEMORY_SIZE - 1] = 255
    /\ panic = ""

C28_OnlyCallAndReturnUseStack ==
    [][(registers'.stack # registers.stack \/ registers'.stack_idx # registers.stack_idx)
       => (Executing /\ StepTaken /\ (IsCall(Opcode) \/ IsReturn(Opcode)))]_vars

\* C28 witness: 2004 0000 6003 F015 7001 1008: inside the routine called from
\* 0, after loads, adds, jumps, timer ticks and a key press, the stack still
\* holds the one return address 2.
C28_Witness ==
    /\ clocks_since_delay = 12
    /\ last[1].opcode \in {\h7001, \h1008}
    /\ memory.data[0] = \h20 /\ memory.data[1] = \h04
    /\ registers.stack_idx = 2
    /\ registers.stack[0] = 0
    /\ registers.stack[1] = 2
    /\ registers.delay = 0
    /\ registers.v[0] > 3
    /\ registers.keys[0]
    /\ panic = ""

\* the load that builds the machine failed: the run never made a step
LoadFailed == last = << >> /\ clocks_since_delay = 0 /\ panic # ""

\* C29: loading never fails, whatever the length and content of the program.
C29_LoadNeverFails == ~LoadFailed

\* C30: 1NNN leaves pc = NNN and BNNN leaves pc = (v[0] + NNN) mod 2^16; apart
\* from calls and returns every other opcode leaves pc advanced by 2, or by 4
\* when it is a conditional skip whose condition holds.
C30_PcUpdate ==
    [][(Executing /\ StepReturned)
       => CASE Opcode \div 4096 = 1 -> registers'.pc = Opcode % 4096
            [] Opcode \div 4096 = 11 ->
                  registers'.pc = (registers.v[0] + (Opcode % 4096)) % 65536
            [] IsCall(Opcode) \/ IsReturn(Opcode) -> TRUE
            [] Opcode \div 4096 \in {3, 4, 5, 9} ->
                  registers'.pc
                    = (registers.pc + (IF SkipCondition(Opcode) THEN 4 ELSE 2)) % 65536
            [] OTHER -> PcAdvanced]_vars

\* C30 witness: the program of skips, add, key query and computed jump has
\* come through B00E with v0 = 8 to the loop at 22.
C30_Witness ==
    /\ clocks_since_delay = 9
    /\ last[2].opcode = \hB00E /\ last[2].pc = 18 /\ last[2].executed
    /\ last[1].opcode = \h1016 /\ last[1].pc = 22 /\ last[1].executed
    /\ registers.v[0] = 8
    /\ registers.pc = 22
    /\ panic = ""

\* bit j of the byte n
BitOf(n, j) == (n \div (2 ^ j)) % 2

\* C31: with v[x] = a and v[y] = b, 8xy0 leaves v[x] = b, 8xy1 a OR b, 8xy2
\* a AND b and 8xy3 a XOR b (bit by bit); v[y] is unchanged when y # x, v[0xF]
\* is unchanged when x # 0xF, and pc advances by 2.
C31_RegisterLogic ==
    [][\A k \in 0..3 :
         MathStep(k)
         => LET x == OpX(Opcode)
                y == OpY(Opcode)
                a == registers.v[x]
                b == registers.v[y]
            IN /\ registers'.v[x] \in 0..255
               /\ \A j \in 0..7 :
                     BitOf(registers'.v[x], j) =
                        CASE k = 0 -> BitOf(b, j)
                          [] k = 1 -> IF BitOf(a, j) = 1 \/ BitOf(b, j) = 1 THEN 1 ELSE 0
                          [] k = 2 -> IF BitOf(a, j) = 1 /\ BitOf(b, j) = 1 THEN 1 ELSE 0
                          [] k = 3 -> IF BitOf(a, j) # BitOf(b, j) THEN 1 ELSE 0
               /\ y # x => registers'.v[y] = b
               /\ x # 15 => registers'.v[15] = registers.v[15]
               /\ PcAdvanced]_vars

\* C31 witness: 8011 on v0 = 53, v1 = 15 has left v0 = 63, v1 = 15 and the
\* flag register as it was.
C31_Witness ==
    /\ clocks_since_delay = 1
    /\ last[1].opcode = \h8011
    /\ last[1].executed
    /\ registers.v[0] = 63
    /\ registers.v[1] = 15
    /\ registers.v[15] = 40
    /\ registers.pc = 2

\* this step runs the opcode Fx<nn> and returns
LoadStep(nn) == Executing /\ IsLoadOp(Opcode, nn) /\ StepReturned
\* the registers with pc moved past the instruction
Advanced(regs) == [regs EXCEPT !.pc = (regs.pc + 2) % 65536]

\* C32: Fx07 leaves v[x] = delay and the delay timer as it was, Fx15 leaves
\* delay = v[x], Fx18 leaves sound = v[x]; each advances pc by 2 and changes
\* no other register and no memory; the sound signal the host reads is on
\* exactly when the sound timer is not zero.
C32_Timers ==
    [][/\ LoadStep(\h07)
          => /\ InstructionLeft(Advanced([registers EXCEPT !.v[OpX(Opcode)] = registers.delay]))
             /\ memory' = memory
       /\ LoadStep(\h15)
          => /\ InstructionLeft(Advanced([registers EXCEPT !.delay = registers.v[OpX(Opcode)]]))
             /\ memory' = memory
       /\ LoadStep(\h18)
          => /\ InstructionLeft(Advanced([registers EXCEPT !.sound = registers.v[OpX(Opcode)]]))
             /\ memory' = memory
       /\ Machine_sound(registers) <=> registers.sound # 0
       /\ Machine_sound(registers') <=> registers'.sound # 0]_vars

\* C32 witness: FF18 on v[0xF] = 255, delay = 2, sound = 0 has left the sound
\* timer at 255 and the signal on, the delay timer at 2.
C32_Witness ==
    /\ clocks_since_delay = 1
    /\ last[1].opcode = \hFF18
    /\ last[1].executed
    /\ registers.v[15] = 255
    /\ registers.sound = 255
    /\ registers.delay = 2
    /\ Machine_sound(registers)
    /\ registers.pc = 2

\* C35: Fx1E leaves i = (i + v[x]) mod 2^16 with v[x] and v[0xF] unchanged
\* and pc advanced by 2; ANNN leaves i = NNN and pc advanced by 2.
C35_IndexRegister ==
    [][/\ LoadStep(\h1E)
          => /\ registers'.i = (registers.i + registers.v[OpX(Opcode)]) % 65536
             /\ registers'.v[OpX(Opcode)] = registers.v[OpX(Opcode)]
             /\ registers'.v[15] = registers.v[15]
             /\ PcAdvanced
       /\ (Executing /\ Opcode \div 4096 = 10 /\ StepReturned)
          => /\ registers'.i = Opcode % 4096
             /\ PcAdvanced]_vars

\* C35 witness: F01E on i = 0xFFFF, v0 = 2 has wrapped i to 1.
C35_Witness ==
    /\ clocks_since_delay = 1
    /\ last[1].opcode = \hF01E
    /\ last[1].executed
    /\ registers.i = 1
    /\ registers.v[0] = 2
    /\ registers.v[15] = 40
    /\ registers.pc = 2

\* C36: after CxNN no bit of v[x] is set that is clear in NN, whatever byte
\* the random source gave (so NN = 0 leaves v[x] = 0); pc is advanced by 2
\* and nothing else changes.
C36_MaskedRandom ==
    [][(Executing /\ Opcode \div 4096 = 12 /\ StepReturned)
       => LET x == OpX(Opcode)
          IN /\ registers'.v[x] \in 0..255
             /\ \A j \in 0..7 : BitOf(OpNN(Opcode), j) = 0 => BitOf(registers'.v[x], j) = 0
             /\ OpNN(Opcode) = 0 => registers'.v[x] = 0
             /\ InstructionLeft(Advanced([registers EXCEPT !.v[x] = registers'.v[x]]))
             /\ memory' = memory]_vars

\* C36 witness: CFA5 on v[0xF] = 255 has left v[0xF] = 0x84, two of the four
\* bits of the mask.
C36_Witness ==
    /\ clocks_since_delay = 1
    /\ last[1].opcode = \hCFA5
    /\ last[1].executed
    /\ registers.v[15] = \h84
    /\ registers.pc = 2

\* C38: ExNN advances pc by exactly 2 and changes nothing else, whatever the
\* keys held down and whatever NN is; the step is never fatal.
C38_KeyOp ==
    [][(Executing /\ Opcode \div 4096 = 14 /\ StepTaken)
       => /\ StepReturned
          /\ panic' = ""
          /\ InstructionLeft(Advanced(registers))
          /\ memory' = memory]_vars

\* C38 witness: E09E with v0 = 1 and key 1 held down has moved pc to 2, not
\* past the next instruction.
C38_Witness ==
    /\ clocks_since_delay = 1
    /\ last[1].opcode = \hE09E
    /\ last[1].executed
    /\ registers.v[0] = 1
    /\ registers.keys[1]
    /\ registers.pc = 2

\* C37: 00E0 leaves every cell of the framebuffer 0 and pc advanced by 2; the
\* v registers, i, the call stack, the timers and the data memory are as
\* they were.
C37_ClearDisplay ==
    [][(Executing /\ Opcode = \h00E0 /\ StepReturned)
       => /\ \A p \in 0..(SCREEN_SIZE - 1) : memory'.frame_buffer[p] = 0
          /\ PcAdvanced
          /\ InstructionLeft(Advanced(registers))
          /\ memory'.data = memory.data]_vars

\* C37 witness: the clear after three draws of 15 rows has run: no cell is
\* lit, and the coordinates, the collision flag and i are those the draws left.
C37_Witness ==
    /\ clocks_since_delay = 5
    /\ last[1].opcode = \h00E0
    /\ last[1].executed
    /\ last[2].opcode = \hD01F
    /\ \A p \in 0..(SCREEN_SIZE - 1) : memory.frame_buffer[p] = 0
    /\ registers.v[0] = 62
    /\ registers.v[1] = 30
    /\ registers.v[15] = 1
    /\ registers.i = SPRITE_BASE + 5
    /\ registers.pc = 10

\* C33: Fx55 with i = a leaves memory[a + k] = v[k] for every k in 0..x and
\* every other byte of memory as it was; no v register changes, i = a + x + 1
\* and pc has advanced by 2.
C33_RegDump ==
    [][LoadStep(\h55)
       => LET a == registers.i
              x == OpX(Opcode)
          IN /\ \A k \in 0..x : memory'.data[a + k] = registers.v[k]
             /\ \A b \in (0..(MEMORY_SIZE - 1)) \ (a..(a + x)) :
                   memory'.data[b] = memory.data[b]
             /\ memory'.frame_buffer = memory.frame_buffer
             /\ registers'.v = registers.v
             /\ registers'.i = a + x + 1
             /\ PcAdvanced]_vars

\* C33 witness: FF55 on i = 0x1FF0 has stored the sixteen registers in the
\* last sixteen bytes of the data array and left i one past its end.
C33_Witness ==
    /\ clocks_since_delay = 1
    /\ last[1].opcode = \hFF55
    /\ last[1].executed
    /\ \A k \in 0..15 : memory.data[MEMORY_SIZE - 16 + k] = RegisterPattern[k]
    /\ registers.v = RegisterPattern
    /\ registers.i = MEMORY_SIZE
    /\ registers.pc = 2
    /\ panic = ""

\* C34: Fx65 with i = a leaves v[k] = the byte read at a + k for every k in
\* 0..x, the registers above x and all memory as they were, i = a + x + 1
\* and pc advanced by 2; so F255 at i = a, then i set back to a, then F265
\* gives v0..v2 the values they had when they were dumped.
C34_RegLoad ==
    [][/\ LoadStep(\h65)
          => LET a == registers.i
                 x == OpX(Opcode)
             IN /\ \A k \in 0..x : registers'.v[k] = get(memory, a + k)
                /\ \A r \in (x + 1)..15 : registers'.v[r] = registers.v[r]
                /\ memory' = memory
                /\ registers'.i = a + x + 1
                /\ PcAdvanced
       /\ (LoadStep(\h65) /\ registers.pc = 10)
          => \A k \in 0..2 : registers'.v[k] = RegisterPattern[k]]_vars

\* C34 witness: the round trip has run: v0..v2 were dumped at 0x40, set to 0,
\* 255, 255, and F265 has loaded 17, 18, 19 back.
C34_Witness ==
    /\ clocks_since_delay = 6
    /\ last[1].opcode = \hF265
    /\ last[1].executed
    /\ last[2].opcode = \hA000 + RoundTripAddress
    /\ \A k \in 0..2 : registers.v[k] = RegisterPattern[k]
    /\ registers.v[3] = RegisterPattern[3]
    /\ registers.i = RoundTripAddress + 3
    /\ registers.pc = 12

\* C39: a machine built by Machine::of_bytes has pc = 0x200 until its first
\* step, so that this step fetches the first two bytes of the program.
C39_StartsAtProgram ==
    (last = << >> /\ panic = "") => registers.pc = LOAD_OFFSET

\* C40: the call stack is last-in first-out: a return taken while calls
\* made at p1..pk are outstanding sets pc to pk + 2 and leaves p1..p(k-1)
\* outstanding, whatever ran in between; the stack depth always exceeds the
\* depth before the first call by the number of outstanding calls (so it is
\* back there after the k-th return); a call on a full stack is fatal and
\* changes no byte of the stack.
C40_StackLifo ==
    [][/\ (Executing /\ IsReturn(Opcode) /\ StepReturned /\ pending # << >>)
          => /\ registers'.pc = pending[1] + 2
             /\ pending' = Tail(pending)
             /\ registers'.stack_idx = registers.stack_idx - 2
       /\ (StepReturned /\ ~(Executing /\ IsReturn(Opcode) /\ pending = << >>))
          => registers'.stack_idx - (2 * Len(pending')) =
                registers.stack_idx - (2 * Len(pending))
       /\ (Executing /\ IsCall(Opcode) /\ registers.stack_idx + 2 > STACK_SIZE /\ StepTaken)
          => /\ StepPanicked
             /\ registers'.stack = registers.stack
             /\ registers'.stack_idx = registers.stack_idx]_vars

\* C40 witness: the calls at 0, 8 and 16 were made on an empty stack and the
\* third return has run: it came back to 2, the stack is empty again, and
\* every routine has run to its end (v0 = 8 + 4 + 2 + 1).
C40_Witness ==
    /\ clocks_since_delay = 11
    /\ last[1].opcode = \h00EE
    /\ last[1].pc = 12
    /\ last[2].opcode = \h7002
    /\ registers.pc = 2
    /\ registers.stack_idx = 0
    /\ pending = << >>
    /\ registers.v[0] = 15
    /\ registers.stack[3] = 10
    /\ registers.stack[5] = 18

\* the third of the nested calls has found the stack full: the run is over
\* and the 128 return addresses are in place
C40_FullStack ==
    /\ panic # ""
    /\ last[1].opcode = \h2016
    /\ registers.stack_idx = STACK_SIZE
    /\ pending = << 8, 0 >>
    /\ registers.stack[STACK_SIZE - 1] = 10
    /\ registers.stack[1] = 4

====
